---- MODULE Spec2Model ----
(***************************************************************************)
(* Conversation transcript normalisation and streaming merge of the chat   *)
(* client (src/src/components/ChatInterface.jsx, src/src/utils/api.js).    *)
(*                                                                         *)
(* Text is a sequence of tokens; the empty sequence is the empty string.   *)
(* A field that is undefined/null in the JavaScript is the empty sequence  *)
(* (toolResult) or the string NoId (toolId, session ids).                  *)
(***************************************************************************)
EXTENDS Integers, Sequences, FiniteSets, TLC

\* ------------------------------------------------------------------ bounds
\* longest transcript the live handlers may build
MaxMsgs == 2
\* longest streamed text (buffer plus open message) in tokens
MaxLen == 2
\* most raw records the client keeps in sessionMessages, and the largest offset
MaxSession == 6
\* most live messages on top of the loaded history while pages are loading
MaxLive == 1
\* most records counted as delivered between two bulk replaces
MaxIngested == 6
\* page size the history source applies (MESSAGES_PER_PAGE is 20 in the
\* client; the model pages by a small number)
MESSAGES_PER_PAGE == 2
\* most load-more fetches in flight at once
MaxFetch == 2
\* most events the socket delivers
MaxEvents == 3
\* most rows in the blobs table of a Cursor session
MaxBlobs == 2
\* longest snapshot safeLocalStorage.setItem stores (50 in the client; the model
\* keeps a small number)
SAVED_MAX == 3
\* length of the minimal snapshot written when the retry fails (10 in the client)
SAVED_MIN == 1
\* most handleSubmit calls suspended at the image upload at once
MaxUploads == 2

\* ----------------------------------------------------------- input domains
NoId == "none"
NL == "\n"
SP == " "
ToolIds == {"t1", "t2"}
\* content_block_delta fragments (delta.text is truthy)
Frags == {<<"a">>, <<"b">>}
\* cursor-result texts: empty, whitespace only, authoritative text
ResultTexts == {<<>>, <<SP>>, <<"F">>}
\* claude-output payloads: whitespace only, real output
OutputTexts == {<<SP>>, <<"o">>}
INTERRUPTED == <<"Session interrupted by user.">>
USAGE_RAW == "Claude AI usage limit reached|ts"
USAGE_FMT == "Claude usage limit reached. Your limit will reset at"
Sessions == {"A", "B"}

\* ------------------------------------------------------------------- state
VARIABLES
  chatMessages,            \* useState chatMessages: the transcript
  sessionMessages,         \* useState sessionMessages: raw history records
  streamBuffer,            \* streamBufferRef.current
  streamTimer,             \* streamTimerRef.current: "none", or which callback is pending
  timeouts,                \* how many setTimeout callbacks of the stream buffer are pending
  isLoading,
  canAbortSession,
  currentSessionId,
  pendingSessionId,        \* sessionStorage pendingSessionId
  selectedSession,         \* prop selectedSession?.id
  isSystemSessionChange,
  messagesOffset,
  hasMoreMessages,
  totalMessages,
  isLoadingSessionMessages,
  isLoadingMoreMessages,
  initFetch,               \* initial page fetches in flight (loadMessages effect)
  moreFetch,               \* load-more fetches in flight (handleScroll)
  srvPaged,                \* how the history source answers a request without limit
  scrollView,              \* what the handleScroll callback of the last render closed over
  retryOffset,             \* history variable: the stored offset when a load-more last failed
  activeSessions,          \* session-protection collaborator: keys marked active
  messages,                \* prop messages: the events the socket has delivered
  handled,                 \* history variable: positions of messages the effect has handled
  effectThrew,             \* an exception escaped the message effect (the component is gone)
  blobs,                   \* the rows of the blobs table of the Cursor session's store.db
  cursorResponse,          \* the Cursor endpoint's response on its way to the client
  localStorage,            \* window.localStorage: what each key holds
  persistDeps,             \* the chatMessages the persist effect last ran for
  prevMessages,            \* history variable: the transcript before its latest change
  storageCall,             \* history variable: the last safeLocalStorage.setItem call
  uploads,                 \* handleSubmit calls suspended at the image upload, with what they closed over
  lastEvt,                 \* history variable: the step that was taken last
  ingested,                \* history variable: records delivered since the last bulk replace
  stream,                  \* history variable: the fragment run in progress
  toolLog                  \* history variable: tool events delivered, per tool id

vars == <<chatMessages, sessionMessages, streamBuffer, streamTimer, timeouts, isLoading,
          canAbortSession, currentSessionId, pendingSessionId, selectedSession,
          isSystemSessionChange, messagesOffset, hasMoreMessages, totalMessages,
          isLoadingSessionMessages, isLoadingMoreMessages, initFetch, moreFetch,
          srvPaged, scrollView, retryOffset, activeSessions, messages, handled, effectThrew, blobs, cursorResponse, localStorage, persistDeps, prevMessages,
          storageCall, uploads, lastEvt, ingested, stream, toolLog>>

pageVars == <<sessionMessages, selectedSession, isSystemSessionChange, messagesOffset,
              hasMoreMessages, totalMessages, isLoadingSessionMessages,
              isLoadingMoreMessages, initFetch, moreFetch, srvPaged, scrollView,
              retryOffset>>

sessVars == <<currentSessionId, pendingSessionId, activeSessions>>

chanVars == <<messages, handled, effectThrew>>

cursorVars == <<blobs, cursorResponse>>

storeVars == <<localStorage, persistDeps, prevMessages, storageCall>>

liveOnly == <<streamBuffer, streamTimer, timeouts, isLoading, canAbortSession, stream, toolLog>>

\* ----------------------------------------------------------------- helpers
Last(s) == s[Len(s)]
Front(s) == SubSeq(s, 1, Len(s) - 1)
IsSuffix(s, t) == Len(s) <= Len(t) /\ SubSeq(t, Len(t) - Len(s) + 1, Len(t)) = s
IsPrefix(s, t) == Len(s) <= Len(t) /\ SubSeq(t, 1, Len(s)) = s

\* String.prototype.trim() leaves a non-empty string
TrimNonEmpty(t) == \E i \in 1..Len(t) : t[i] \notin {SP, NL}

\* formatUsageLimitText: rewrites the usage-limit marker, keeps everything else
formatUsageLimitText(t) == [i \in 1..Len(t) |-> IF t[i] = USAGE_RAW THEN USAGE_FMT ELSE t[i]]

\* a transcript message; absent fields of the JavaScript object are falsy
Msg(type, content) ==
  [type |-> type, content |-> content, isToolUse |-> FALSE, toolId |-> NoId,
   toolResult |-> <<>>, isStreaming |-> FALSE]

StreamingMsg(content) == [Msg("assistant", content) EXCEPT !.isStreaming = TRUE]

ToolUseMsg(id) == [Msg("assistant", <<>>) EXCEPT !.isToolUse = TRUE, !.toolId = id]

ToolResultValue(content, isError) == <<[content |-> content, isError |-> isError]>>

\* the step taken last: its kind, payload, what the handler found (an open
\* streaming message, the buffered text), the session of the fetch it resolved,
\* whether that fetch was started while isSystemSessionChange was set, and what
\* the step sent on the socket
Evt(type) ==
  [type |-> type, role |-> "", parts |-> <<>>, text |-> <<>>, open |-> FALSE, pending |-> <<>>,
   session |-> NoId, system |-> FALSE, sent |-> <<>>]

\* a fragment run: the transcript it started from, the fragments delivered so far,
\* the timer flushes that happened inside it
NoStream == [active |-> FALSE, base |-> <<>>, text |-> <<>>, flushes |-> 0]

\* last && last.type === 'assistant' && !last.isToolUse && last.isStreaming
OpenStream(chat) ==
  /\ Len(chat) > 0
  /\ Last(chat).type = "assistant"
  /\ ~Last(chat).isToolUse
  /\ Last(chat).isStreaming

\* a flush that never looks for the open streaming message
FlushDelta_AlwaysPush(chat, chunk) == Append(chat, StreamingMsg(chunk))

\* content_block_delta flush: append to the open message or push a new one
FlushDelta(chat, chunk) ==
  IF OpenStream(chat)
    THEN [chat EXCEPT ![Len(chat)].content = @ \o chunk]
    ELSE Append(chat, StreamingMsg(chunk))

\* a flush that appends to any assistant message at the end of the transcript
FlushOutput_AnyAssistant(chat, chunk) ==
  IF Len(chat) > 0 /\ Last(chat).type = "assistant"
    THEN [chat EXCEPT ![Len(chat)].content = IF @ # <<>> THEN @ \o <<NL>> \o chunk ELSE chunk]
    ELSE Append(chat, StreamingMsg(chunk))

\* claude-output / cursor-output flush: joins with a newline
FlushOutput(chat, chunk) ==
  IF OpenStream(chat)
    THEN [chat EXCEPT ![Len(chat)].content = IF @ # <<>> THEN @ \o <<NL>> \o chunk ELSE chunk]
    ELSE Append(chat, StreamingMsg(chunk))

\* content_block_stop: last.type === 'assistant' && last.isStreaming
CloseStream(chat) ==
  IF Len(chat) > 0 /\ Last(chat).type = "assistant" /\ Last(chat).isStreaming
    THEN [chat EXCEPT ![Len(chat)].isStreaming = FALSE]
    ELSE chat

\* live handlers add at most MaxMsgs messages on top of the loaded history
ChatCap == MaxMsgs + Len(sessionMessages)

\* length the open message would have after the buffer is flushed into it
StreamLen == Len(streamBuffer) + (IF OpenStream(chatMessages) THEN Len(Last(chatMessages).content) ELSE 0)

\* ------------------------------------------------- live channel payloads
Part(type, id, text) == [type |-> type, id |-> id, text |-> text, isError |-> FALSE]

Payload(role, isArray, parts, text) ==
  [role |-> role, isArray |-> isArray, parts |-> parts, text |-> text]

\* claude-response payloads: messageData.role and messageData.content
ResponsePayloads ==
  {Payload("assistant", TRUE, <<Part("tool_use", t, <<>>)>>, <<>>) : t \in ToolIds}
  \cup {Payload("user", TRUE, <<Part("tool_result", t, <<"r">>)>>, <<>>) : t \in ToolIds}
  \cup {Payload("assistant", TRUE, <<Part("text", NoId, <<"x">>)>>, <<>>),
        Payload("assistant", TRUE, <<Part("text", NoId, <<SP>>)>>, <<>>),
        Payload("assistant", TRUE, <<Part("text", NoId, <<"x">>), Part("tool_use", "t1", <<>>)>>, <<>>),
        Payload("assistant", FALSE, <<>>, <<"x">>),
        Payload("assistant", FALSE, <<>>, <<SP>>)}

\* the non-stream payload that interleaves with a stream
StreamPayloads == {Payload("assistant", TRUE, <<Part("tool_use", "t1", <<>>)>>, <<>>)}

\* for (const part of messageData.content): tool_use and text parts
RECURSIVE ApplyContentParts(_, _)
ApplyContentParts(chat, parts) ==
  IF parts = <<>> THEN chat
  ELSE LET part == Head(parts)
           next == IF part.type = "tool_use"
                     THEN Append(chat, ToolUseMsg(part.id))
                   ELSE IF part.type = "text" /\ TrimNonEmpty(part.text)
                     THEN Append(chat, Msg("assistant", formatUsageLimitText(part.text)))
                   ELSE chat
       IN ApplyContentParts(next, Tail(parts))

\* a lookup that compares the tool id with the wrong field of the part
AttachToolResult_WrongKey(chat, part) ==
  [i \in 1..Len(chat) |->
     IF chat[i].isToolUse /\ chat[i].toolId = part.type
       THEN [chat[i] EXCEPT !.toolResult = ToolResultValue(part.text, part.isError)]
       ELSE chat[i]]

\* prev.map(msg => msg.isToolUse && msg.toolId === part.tool_use_id ? {...msg, toolResult} : msg)
AttachToolResult(chat, part) ==
  [i \in 1..Len(chat) |->
     IF chat[i].isToolUse /\ chat[i].toolId = part.id
       THEN [chat[i] EXCEPT !.toolResult = ToolResultValue(part.text, part.isError)]
       ELSE chat[i]]

\* for (const part of messageData.content): tool_result parts of a user message
RECURSIVE ApplyToolResults(_, _)
ApplyToolResults(chat, parts) ==
  IF parts = <<>> THEN chat
  ELSE ApplyToolResults(IF Head(parts).type = "tool_result"
                          THEN AttachToolResult(chat, Head(parts))
                          ELSE chat,
                        Tail(parts))

\* a content handling that attaches a result to every tool-use message, whatever
\* its tool id
HandleResponseContent_AnyTool(chat, p) ==
  LET c1 == IF p.isArray THEN ApplyContentParts(chat, p.parts)
            ELSE IF TrimNonEmpty(p.text) THEN Append(chat, Msg("assistant", formatUsageLimitText(p.text)))
            ELSE chat
  IN IF p.role = "user" /\ p.isArray /\ (\E k \in 1..Len(p.parts) : p.parts[k].type = "tool_result")
       THEN [i \in 1..Len(c1) |->
               IF c1[i].isToolUse
                 THEN [c1[i] EXCEPT !.toolResult = ToolResultValue(p.parts[1].text, p.parts[1].isError)]
                 ELSE c1[i]]
       ELSE c1

\* the content handling of a claude-response that is neither a stream event
\* nor a system/init message
HandleResponseContent(chat, p) ==
  LET c1 == IF p.isArray THEN ApplyContentParts(chat, p.parts)
            ELSE IF TrimNonEmpty(p.text) THEN Append(chat, Msg("assistant", formatUsageLimitText(p.text)))
            ELSE chat
  IN IF p.role = "user" /\ p.isArray THEN ApplyToolResults(c1, p.parts) ELSE c1

\* ------------------------------------------------------- history records
\* a raw session record: msg.message.role and msg.message.content
Raw(role, parts) == Payload(role, TRUE, parts, <<>>)

\* the history source's records per session, oldest first
Store(s) ==
  IF s = "A"
    THEN <<Raw("user", <<Part("text", NoId, <<"q1">>)>>),
           Raw("assistant", <<Part("tool_use", "t1", <<>>)>>),
           Raw("user", <<Part("tool_result", "t1", <<"r1">>)>>),
           Raw("assistant", <<Part("text", NoId, <<"a1">>)>>),
           Raw("user", <<Part("text", NoId, <<"q2">>)>>)>>
  ELSE IF s = "B"
    THEN <<Raw("user", <<Part("text", NoId, <<"qb">>)>>),
           Raw("assistant", <<Part("text", NoId, <<"ab">>), Part("tool_use", "t2", <<>>)>>)>>
  ELSE <<>>

\* textParts.join('\n')
RECURSIVE JoinLines(_)
JoinLines(texts) ==
  IF texts = <<>> THEN <<>>
  ELSE IF Len(texts) = 1 THEN Head(texts)
  ELSE Head(texts) \o <<NL>> \o JoinLines(Tail(texts))

\* first pass of convertSessionMessages: the tool_result parts of user records, in order
RECURSIVE CollectToolResults(_)
CollectToolResults(raw) ==
  IF raw = <<>> THEN <<>>
  ELSE (IF Head(raw).role = "user" /\ Head(raw).isArray
          THEN SelectSeq(Head(raw).parts, LAMBDA q : q.type = "tool_result")
          ELSE <<>>)
       \o CollectToolResults(Tail(raw))

\* toolResults.get(id) after every toolResults.set of the first pass: the last one wins
LookupToolResult(results, id) ==
  LET hits == {i \in 1..Len(results) : results[i].id = id}
  IN IF hits = {} THEN <<>>
     ELSE LET k == CHOOSE i \in hits : \A j \in hits : j <= i
          IN ToolResultValue(results[k].text, results[k].isError)

\* content.startsWith('<command-name>') || content.startsWith('[Request interrupted')
IsCommandText(content) ==
  Len(content) > 0 /\ content[1] \in {"<command-name>", "[Request interrupted"}

\* second pass, user record: one user message from the joined text parts
ConvertUserRecord(msg) ==
  LET texts == [i \in 1..Len(SelectSeq(msg.parts, LAMBDA q : q.type = "text")) |->
                  SelectSeq(msg.parts, LAMBDA q : q.type = "text")[i].text]
      content == IF msg.isArray THEN JoinLines(texts) ELSE msg.text
  IN IF content # <<>> /\ ~IsCommandText(content) THEN <<Msg("user", content)>> ELSE <<>>

\* second pass, assistant record: one message per text part and per tool_use part
RECURSIVE ConvertAssistantParts(_, _)
ConvertAssistantParts(parts, results) ==
  IF parts = <<>> THEN <<>>
  ELSE LET part == Head(parts)
           out == IF part.type = "text" THEN <<Msg("assistant", part.text)>>
                  ELSE IF part.type = "tool_use"
                    THEN <<[Msg("assistant", <<>>) EXCEPT !.isToolUse = TRUE,
                                                          !.toolResult = LookupToolResult(results, part.id)]>>
                  ELSE <<>>
       IN out \o ConvertAssistantParts(Tail(parts), results)

RECURSIVE ConvertRecords(_, _)
ConvertRecords(raw, results) ==
  IF raw = <<>> THEN <<>>
  ELSE LET msg == Head(raw)
           out == IF msg.role = "user" /\ (msg.isArray \/ msg.text # <<>>)
                    THEN ConvertUserRecord(msg)
                  ELSE IF msg.role = "assistant" /\ (msg.isArray \/ msg.text # <<>>)
                    THEN IF msg.isArray THEN ConvertAssistantParts(msg.parts, results)
                         ELSE <<Msg("assistant", msg.text)>>
                  ELSE <<>>
       IN out \o ConvertRecords(Tail(raw), results)

convertSessionMessages(rawMessages) ==
  ConvertRecords(rawMessages, CollectToolResults(rawMessages))

\* useEffect([convertedMessages, sessionMessages]): the transcript becomes the
\* converted history whenever sessionMessages is non-empty
SyncChatMessages(chat, session) ==
  IF Len(session) > 0 THEN convertSessionMessages(session) ELSE chat

\* ------------------------------------------------------- history source
NoParam == -1

\* api.sessionMessages(projectName, sessionId): the URL carries no limit and no offset
ApiSessionMessages(sessionId, limit, offset) ==
  [session |-> sessionId, limit |-> NoParam, offset |-> NoParam]

\* fetchPage(sessionKey, limit, offset) -> {records, hasMore, total}; offset counts
\* from the newest record; a request without limit gets the source's default page
\* (paged) or the whole list without hasMore (legacy)
FetchPage(req, paged) ==
  LET all == Store(req.session)
      total == Len(all)
      offset == IF req.offset = NoParam THEN 0 ELSE req.offset
      isPaged == req.limit # NoParam \/ paged
      limit == IF req.limit = NoParam THEN MESSAGES_PER_PAGE ELSE req.limit
      endIdx == IF total - offset > 0 THEN total - offset ELSE 0
      startIdx == IF endIdx - limit > 0 THEN endIdx - limit ELSE 0
  IN IF isPaged
       THEN [hasMoreDefined |-> TRUE, messages |-> SubSeq(all, startIdx + 1, endIdx),
             hasMore |-> startIdx > 0, total |-> total]
       ELSE [hasMoreDefined |-> FALSE, messages |-> all, hasMore |-> FALSE, total |-> total]

\* history of the tool events of a payload: tool-use events counted per id, and
\* whether a tool-result event arrived after a tool-use with the same id
RECURSIVE LogParts(_, _, _)
LogParts(log, parts, isUser) ==
  IF parts = <<>> THEN log
  ELSE LET part == Head(parts)
           next == IF part.type = "tool_use"
                     THEN [log EXCEPT ![part.id].uses = @ + 1]
                   ELSE IF part.type = "tool_result" /\ isUser /\ log[part.id].uses > 0
                     THEN [log EXCEPT ![part.id].resultAfter = TRUE]
                   ELSE log
       IN LogParts(next, Tail(parts), isUser)

LogToolParts(log, p) == IF p.isArray THEN LogParts(log, p.parts, p.role = "user") ELSE log

\* ------------------------------------------------------ live channel steps
\* claude-response carrying message content (tool_use, text, tool_result)
ClaudeResponse(p) ==
  /\ Len(HandleResponseContent(chatMessages, p)) <= ChatCap
  /\ chatMessages' = HandleResponseContent(chatMessages, p)
  /\ ingested' = ingested + (Len(chatMessages') - Len(chatMessages))
  /\ lastEvt' = [Evt("claude-response") EXCEPT !.role = p.role, !.parts = p.parts, !.text = p.text]
  /\ stream' = NoStream
  /\ toolLog' = LogToolParts(toolLog, p)
  /\ UNCHANGED <<streamBuffer, streamTimer, timeouts, isLoading, canAbortSession>>
  /\ UNCHANGED <<pageVars, sessVars>>
  /\ UNCHANGED <<chanVars, cursorVars, storeVars, uploads>>

\* a handler that arms a timer although one is pending
ArmsTimer_Always(timer) == TRUE

\* if (!streamTimerRef.current) streamTimerRef.current = setTimeout(...)
ArmsTimer(timer) == timer = "none"

\* if (streamTimerRef.current) clearTimeout(streamTimerRef.current)
ClearTimeout(timer, pending) == IF timer # "none" THEN pending - 1 ELSE pending

\* claude-response content_block_delta: buffer the text, arm the timer once
ContentBlockDelta(f) ==
  /\ StreamLen + Len(f) <= MaxLen
  /\ Len(chatMessages) + (IF OpenStream(chatMessages) THEN 0 ELSE 1) <= MaxMsgs
  /\ streamBuffer' = streamBuffer \o f
  /\ streamTimer' = IF ArmsTimer(streamTimer) THEN "delta" ELSE streamTimer
  /\ timeouts' = IF ArmsTimer(streamTimer) THEN timeouts + 1 ELSE timeouts
  /\ lastEvt' = [Evt("content_block_delta") EXCEPT !.text = f]
  /\ stream' = IF stream.active THEN [stream EXCEPT !.text = @ \o f]
               ELSE IF streamBuffer = <<>> /\ streamTimer = "none" /\ ~OpenStream(chatMessages)
                 THEN [active |-> TRUE, base |-> chatMessages, text |-> f, flushes |-> 0]
               ELSE NoStream
  /\ UNCHANGED <<chatMessages, ingested, isLoading, canAbortSession>>
  /\ UNCHANGED <<pageVars, sessVars, toolLog>>
  /\ UNCHANGED <<chanVars, cursorVars, storeVars, uploads>>

\* the setTimeout callback armed by content_block_delta or by claude-output
StreamTimerFires ==
  /\ timeouts > 0
  /\ timeouts' = timeouts - 1
  /\ streamBuffer' = <<>>
  /\ streamTimer' = "none"
  /\ chatMessages' = IF streamBuffer = <<>> THEN chatMessages
                     ELSE IF streamTimer = "output" THEN FlushOutput(chatMessages, streamBuffer)
                     ELSE FlushDelta(chatMessages, streamBuffer)
  /\ ingested' = ingested + (Len(chatMessages') - Len(chatMessages))
  /\ lastEvt' = [Evt("timer") EXCEPT !.text = streamBuffer, !.role = streamTimer,
                                     !.open = OpenStream(chatMessages)]
  /\ stream' = IF stream.active THEN [stream EXCEPT !.flushes = @ + 1] ELSE stream
  /\ UNCHANGED <<isLoading, canAbortSession>>
  /\ UNCHANGED <<pageVars, sessVars, toolLog>>
  /\ UNCHANGED <<chanVars, cursorVars, storeVars, uploads>>

\* claude-response content_block_stop: cancel the timer, flush, close the stream
ContentBlockStop ==
  /\ streamTimer' = "none"
  /\ timeouts' = ClearTimeout(streamTimer, timeouts)
  /\ streamBuffer' = <<>>
  /\ chatMessages' = CloseStream(IF streamBuffer # <<>>
                                   THEN FlushDelta(chatMessages, streamBuffer)
                                   ELSE chatMessages)
  /\ ingested' = ingested + (Len(chatMessages') - Len(chatMessages))
  /\ lastEvt' = [Evt("content_block_stop") EXCEPT !.open = OpenStream(chatMessages),
                                                  !.pending = streamBuffer]
  /\ stream' = IF stream.active THEN [stream EXCEPT !.active = FALSE] ELSE NoStream
  /\ UNCHANGED <<isLoading, canAbortSession>>
  /\ UNCHANGED <<pageVars, sessVars, toolLog>>
  /\ UNCHANGED <<chanVars, cursorVars, storeVars, uploads>>

\* claude-output: raw output joined by newlines into the buffer
ClaudeOutput(t) ==
  /\ StreamLen + Len(t) <= MaxLen
  /\ Len(chatMessages) + (IF OpenStream(chatMessages) THEN 0 ELSE 1) <= MaxMsgs
  /\ IF TrimNonEmpty(t)
       THEN /\ streamBuffer' = IF streamBuffer # <<>> THEN streamBuffer \o <<NL>> \o t ELSE t
            /\ streamTimer' = IF ArmsTimer(streamTimer) THEN "output" ELSE streamTimer
            /\ timeouts' = IF ArmsTimer(streamTimer) THEN timeouts + 1 ELSE timeouts
       ELSE UNCHANGED <<streamBuffer, streamTimer, timeouts>>
  /\ lastEvt' = [Evt("claude-output") EXCEPT !.text = t]
  /\ stream' = NoStream
  /\ UNCHANGED <<chatMessages, ingested, isLoading, canAbortSession>>
  /\ UNCHANGED <<pageVars, sessVars, toolLog>>
  /\ UNCHANGED <<chanVars, cursorVars, storeVars, uploads>>

\* an ANSI escape sequence in raw terminal output
ANSI == "ESC[0m"

\* raw.replace(ANSI and control characters, '').trim()
CleanOutput(raw) ==
  LET NotAnsi(x) == x # ANSI
      stripped == SelectSeq(raw, NotAnsi)
      solid == {i \in 1..Len(stripped) : stripped[i] \notin {SP, NL}}
  IN IF solid = {} THEN <<>>
     ELSE SubSeq(stripped, CHOOSE i \in solid : \A j \in solid : i <= j,
                           CHOOSE i \in solid : \A j \in solid : i >= j)

\* cursor-output: cleaned terminal output joined by newlines into the buffer
CursorOutput(raw) ==
  /\ StreamLen + Len(CleanOutput(raw)) <= MaxLen
  /\ Len(chatMessages) + (IF OpenStream(chatMessages) THEN 0 ELSE 1) <= MaxMsgs
  /\ IF CleanOutput(raw) # <<>>
       THEN /\ streamBuffer' = IF streamBuffer # <<>> THEN streamBuffer \o <<NL>> \o CleanOutput(raw)
                               ELSE CleanOutput(raw)
            /\ streamTimer' = IF ArmsTimer(streamTimer) THEN "output" ELSE streamTimer
            /\ timeouts' = IF ArmsTimer(streamTimer) THEN timeouts + 1 ELSE timeouts
       ELSE UNCHANGED <<streamBuffer, streamTimer, timeouts>>
  /\ lastEvt' = [Evt("cursor-output") EXCEPT !.text = raw]
  /\ stream' = NoStream
  /\ UNCHANGED <<chatMessages, ingested, isLoading, canAbortSession>>
  /\ UNCHANGED <<pageVars, sessVars, toolLog>>
  /\ UNCHANGED <<chanVars, cursorVars, storeVars, uploads>>

\* a final result message that is an assistant message even for an error result
ResultMessage_AlwaysAssistant(textResult, isError) == Msg("assistant", textResult)

\* { type: r.is_error ? 'error' : 'assistant', content: textResult, isStreaming: false }
ResultMessage(textResult, isError) ==
  Msg(IF isError THEN "error" ELSE "assistant", textResult)

\* a final result that is concatenated to the streamed text instead of replacing it
CursorResultChat_Concat(chat, textResult, isError, pendingChunk) ==
  IF OpenStream(chat)
    THEN [chat EXCEPT ![Len(chat)].content = @ \o pendingChunk \o textResult,
                      ![Len(chat)].isStreaming = FALSE]
  ELSE IF TrimNonEmpty(textResult)
    THEN Append(chat, Msg(IF isError THEN "error" ELSE "assistant", textResult))
  ELSE chat

\* cursor-result: final result text, replaces the open streaming message
CursorResultChat(chat, textResult, isError, pendingChunk) ==
  IF OpenStream(chat)
    THEN [chat EXCEPT ![Len(chat)].content =
                         IF TrimNonEmpty(textResult) THEN textResult ELSE @ \o pendingChunk,
                      ![Len(chat)].isStreaming = FALSE]
  ELSE IF TrimNonEmpty(textResult)
    THEN Append(chat, ResultMessage(textResult, isError))
  ELSE chat

CursorResult(textResult, isError) ==
  /\ Len(CursorResultChat(chatMessages, textResult, isError, streamBuffer)) <= MaxMsgs
  /\ isLoading' = FALSE
  /\ canAbortSession' = FALSE
  /\ streamTimer' = "none"
  /\ timeouts' = ClearTimeout(streamTimer, timeouts)
  /\ streamBuffer' = <<>>
  /\ chatMessages' = CursorResultChat(chatMessages, textResult, isError, streamBuffer)
  /\ ingested' = ingested + (Len(chatMessages') - Len(chatMessages))
  /\ LET cursorSessionId == IF currentSessionId # NoId THEN currentSessionId ELSE pendingSessionId
     IN /\ activeSessions' = activeSessions \ {cursorSessionId}
        /\ IF cursorSessionId # NoId /\ currentSessionId = NoId
             THEN currentSessionId' = cursorSessionId /\ pendingSessionId' = NoId
             ELSE UNCHANGED <<currentSessionId, pendingSessionId>>
  /\ lastEvt' = [Evt("cursor-result") EXCEPT !.text = textResult,
                                             !.role = IF isError THEN "error" ELSE "",
                                             !.open = OpenStream(chatMessages),
                                             !.pending = streamBuffer]
  /\ stream' = NoStream
  /\ UNCHANGED <<pageVars, toolLog>>
  /\ UNCHANGED <<chanVars, cursorVars, storeVars, uploads>>

\* session-aborted: clears the loading state and appends the interruption notice
SessionAborted ==
  /\ Len(chatMessages) < MaxMsgs
  /\ isLoading' = FALSE
  /\ canAbortSession' = FALSE
  /\ activeSessions' = activeSessions \ {currentSessionId}
  /\ chatMessages' = Append(chatMessages, Msg("assistant", INTERRUPTED))
  /\ ingested' = ingested + 1
  /\ lastEvt' = [Evt("session-aborted") EXCEPT !.open = OpenStream(chatMessages),
                                               !.pending = streamBuffer]
  /\ stream' = NoStream
  /\ UNCHANGED <<streamBuffer, streamTimer, timeouts, currentSessionId, pendingSessionId>>
  /\ UNCHANGED <<pageVars, toolLog>>
  /\ UNCHANGED <<chanVars, cursorVars, storeVars, uploads>>

\* claude-error: appends an error message
ClaudeError ==
  /\ Len(chatMessages) < MaxMsgs
  /\ chatMessages' = Append(chatMessages, Msg("error", <<"Error: ", "e">>))
  /\ ingested' = ingested + 1
  /\ lastEvt' = Evt("claude-error")
  /\ stream' = NoStream
  /\ UNCHANGED <<streamBuffer, streamTimer, timeouts, isLoading, canAbortSession>>
  /\ UNCHANGED <<pageVars, sessVars, toolLog>>
  /\ UNCHANGED <<chanVars, cursorVars, storeVars, uploads>>

\* cursor-error: appends an error message
CursorError ==
  /\ Len(chatMessages) < MaxMsgs
  /\ chatMessages' = Append(chatMessages, Msg("error", <<"Cursor error: ", "e">>))
  /\ ingested' = ingested + 1
  /\ lastEvt' = Evt("cursor-error")
  /\ stream' = NoStream
  /\ UNCHANGED <<streamBuffer, streamTimer, timeouts, isLoading, canAbortSession>>
  /\ UNCHANGED <<pageVars, sessVars, toolLog>>
  /\ UNCHANGED <<chanVars, cursorVars, storeVars, uploads>>

\* ------------------------------------------------------- safeLocalStorage
\* the project the component is mounted for (selectedProject.name)
PROJECT_KEY == "chat_messages_p"
\* the chat_messages_ keys the store may hold, in the order Array.prototype.sort
\* puts them
ChatKeys == <<"chat_messages_a", "chat_messages_p", "chat_messages_q", "chat_messages_r",
              "chat_messages_s">>
ChatKeySet == {ChatKeys[i] : i \in 1..Len(ChatKeys)}
DraftKeys == {"draft_input_a", "draft_input_p"}
StorageKeys == ChatKeySet \cup DraftKeys \cup {"auth-token"}

\* what a key holds: nothing, the JSON text of an array, any other string
Absent == [kind |-> "none", items |-> <<>>]
\* JSON.stringify(array)
JsonArray(items) == [kind |-> "array", items |-> items]
PlainString(text) == [kind |-> "string", items |-> text]

\* array.slice(-n)
LastN(items, n) == IF Len(items) > n THEN SubSeq(items, Len(items) - n + 1, Len(items)) ELSE items

\* safeLocalStorage.getItem followed by the initial state's saved ? JSON.parse(saved) : []
SavedMessages(store, key) == IF store[key].kind = "array" THEN store[key].items ELSE <<>>

\* how the native localStorage.setItem calls end: the first write (done, quota
\* exceeded, another error), the retry after the cleanup, the write of the
\* minimal snapshot
Outcomes == {<<a, b, c>> : a \in {"ok", "quota", "error"}, b \in {"ok", "quota"},
                           c \in {"ok", "quota"}}

\* a chat-message value that is an array of more than n entries
IsLongChatArray(key, value, n) ==
  key \in ChatKeySet /\ value.kind = "array" /\ Len(value.items) > n

\* the value setItem writes first: a chat snapshot is cut to its last SAVED_MAX entries
TruncatedValue(key, value) ==
  IF IsLongChatArray(key, value, SAVED_MAX)
    THEN JsonArray(LastN(value.items, SAVED_MAX))
    ELSE value

\* a cleanup that drops the newest chat snapshots instead of the oldest
ChatKeysToDrop_Newest(store) ==
  LET Present(k) == store[k].kind # "none"
      chatKeys == SelectSeq(ChatKeys, Present)
  IN IF Len(chatKeys) > 3
       THEN {chatKeys[i] : i \in 4..Len(chatKeys)}
       ELSE {}

\* chatKeys.slice(0, chatKeys.length - 3) of the sorted chat_messages_ keys
ChatKeysToDrop(store) ==
  LET Present(k) == store[k].kind # "none"
      chatKeys == SelectSeq(ChatKeys, Present)
  IN IF Len(chatKeys) > 3
       THEN {chatKeys[i] : i \in 1..(Len(chatKeys) - 3)}
       ELSE {}

\* the quota handler's cleanup: old chat snapshots and every draft are removed
Cleanup(store) ==
  [k \in StorageKeys |-> IF k \in ChatKeysToDrop(store) \cup DraftKeys THEN Absent ELSE store[k]]

\* what the handler writes after the retry failed: the last SAVED_MIN entries of
\* a chat array longer than that, else nothing (Absent)
MinimalValue(key, value) ==
  IF IsLongChatArray(key, value, SAVED_MIN)
    THEN JsonArray(LastN(value.items, SAVED_MIN))
    ELSE Absent

\* safeLocalStorage.setItem(key, value) when the native writes end as outcome
\* says: the store afterwards, which writes were tried, whether an exception
\* left the function
SetItem(store, key, value, outcome) ==
  LET v == TruncatedValue(key, value)
      cleaned == Cleanup(store)
      minimal == MinimalValue(key, v)
  IN IF outcome[1] = "ok"
       THEN [store |-> [store EXCEPT ![key] = v], tried |-> <<v>>, threw |-> FALSE]
     ELSE IF outcome[1] # "quota"
       THEN [store |-> store, tried |-> <<v>>, threw |-> FALSE]
     ELSE IF outcome[2] = "ok"
       THEN [store |-> [cleaned EXCEPT ![key] = v], tried |-> <<v, v>>, threw |-> FALSE]
     ELSE IF minimal = Absent
       THEN [store |-> cleaned, tried |-> <<v, v>>, threw |-> FALSE]
     ELSE IF outcome[3] = "ok"
       THEN [store |-> [cleaned EXCEPT ![key] = minimal], tried |-> <<v, v, minimal>>,
             threw |-> FALSE]
       ELSE [store |-> cleaned, tried |-> <<v, v, minimal>>, threw |-> FALSE]

\* no setItem call yet
NoCall == [key |-> NoId, value |-> Absent, outcome |-> <<"ok", "ok", "ok">>,
           before |-> [k \in StorageKeys |-> Absent], tried |-> <<>>, threw |-> FALSE]

\* the record of a setItem call
Call(store, key, value, outcome) ==
  [key |-> key, value |-> value, outcome |-> outcome, before |-> store,
   tried |-> SetItem(store, key, value, outcome).tried,
   threw |-> SetItem(store, key, value, outcome).threw]

\* handleSubmit from the user message on: appends the message, starts the turn,
\* marks the session active and sends the command; current and selected are the
\* session ids the call closed over
SendCommand(input, current, selected) ==
  /\ Len(chatMessages) < ChatCap
  /\ chatMessages' = Append(chatMessages, Msg("user", input))
  /\ ingested' = ingested + 1
  /\ isLoading' = TRUE
  /\ canAbortSession' = TRUE
  /\ LET effectiveSessionId == IF current # NoId THEN current ELSE selected
         sessionToActivate == IF effectiveSessionId # NoId THEN effectiveSessionId ELSE "new-session"
     IN activeSessions' = activeSessions \cup {sessionToActivate}
  /\ lastEvt' = [Evt("submit") EXCEPT !.text = input,
                                      !.sent = <<"claude-command", current>>]
  /\ stream' = NoStream
  /\ UNCHANGED <<streamBuffer, streamTimer, timeouts, currentSessionId, pendingSessionId>>
  /\ UNCHANGED <<pageVars, toolLog>>
  /\ UNCHANGED <<chanVars, cursorVars, storeVars>>

\* if (!input.trim() || isLoading || !selectedProject) return
MaySubmit(input, loading) == TrimNonEmpty(input) /\ ~loading

\* handleSubmit without attachments: appends the user message, starts the turn
HandleSubmit(input) ==
  /\ MaySubmit(input, isLoading)
  /\ SendCommand(input, currentSessionId, selectedSession)
  /\ UNCHANGED uploads

\* handleSubmit with attached images, up to the await of the upload
SubmitWithImages(input) ==
  /\ MaySubmit(input, isLoading)
  /\ Len(uploads) < MaxUploads
  /\ uploads' = Append(uploads, [input |-> input, current |-> currentSessionId,
                                 selected |-> selectedSession])
  /\ lastEvt' = [Evt("upload-start") EXCEPT !.text = input]
  /\ UNCHANGED <<chatMessages, ingested, stream, toolLog>>
  /\ UNCHANGED <<streamBuffer, streamTimer, timeouts, isLoading, canAbortSession>>
  /\ UNCHANGED <<pageVars, sessVars, chanVars, cursorVars, storeVars>>

\* the upload of a suspended handleSubmit resolves: the call goes on as without
\* attachments, or appends the upload error and returns
UploadDone(i, ok) ==
  /\ i \in 1..Len(uploads)
  /\ uploads' = SubSeq(uploads, 1, i - 1) \o SubSeq(uploads, i + 1, Len(uploads))
  /\ IF ok
       THEN SendCommand(uploads[i].input, uploads[i].current, uploads[i].selected)
       ELSE /\ Len(chatMessages) < ChatCap
            /\ chatMessages' = Append(chatMessages, Msg("error", <<"Failed to upload images: ", "e">>))
            /\ ingested' = ingested + 1
            /\ lastEvt' = Evt("upload-failed")
            /\ stream' = NoStream
            /\ UNCHANGED <<streamBuffer, streamTimer, timeouts, isLoading, canAbortSession>>
            /\ UNCHANGED <<pageVars, sessVars, toolLog>>
            /\ UNCHANGED <<chanVars, cursorVars, storeVars>>

\* onReplaceTemporarySession(realId): the placeholder key gives way to the real id
ReplaceTemporarySession(active, realId) ==
  IF "new-session" \in active THEN (active \ {"new-session"}) \cup {realId} ELSE active

\* a session-created guard that does not look at the tracked session id
StoresPending_Always(sid, current) == sid # NoId

\* if (latestMessage.sessionId && !currentSessionId)
StoresPending(sid, current) == sid # NoId /\ current = NoId

\* session-created: remembers the server's id until the conversation completes
\* and hands it to onReplaceTemporarySession
SessionCreated(sid) ==
  /\ IF StoresPending(sid, currentSessionId)
       THEN /\ pendingSessionId' = sid
            /\ activeSessions' = ReplaceTemporarySession(activeSessions, sid)
       ELSE UNCHANGED <<pendingSessionId, activeSessions>>
  /\ lastEvt' = [Evt("session-created") EXCEPT
                   !.session = sid,
                   !.sent = IF StoresPending(sid, currentSessionId)
                              THEN <<"replaceTemporaryId", sid>> ELSE <<>>]
  /\ UNCHANGED <<chatMessages, ingested, streamBuffer, streamTimer, timeouts, isLoading, canAbortSession,
                 currentSessionId, stream, toolLog>>
  /\ UNCHANGED <<pageVars, chanVars, cursorVars, storeVars, uploads>>

\* an adoption of the pending id whatever the exit code
AdoptsPending_AnyExit(pending, current, exitCode) == pending # NoId /\ current = NoId

\* if (pendingSessionId && !currentSessionId && latestMessage.exitCode === 0)
AdoptsPending(pending, current, exitCode) ==
  pending # NoId /\ current = NoId /\ exitCode = 0

\* claude-complete: ends the turn, marks the session inactive, adopts the pending
\* id, and on exit code 0 removes the project's snapshot (safeLocalStorage.removeItem)
ClaudeComplete(exitCode) ==
  /\ isLoading' = FALSE
  /\ canAbortSession' = FALSE
  /\ LET activeSessionId == IF currentSessionId # NoId THEN currentSessionId ELSE pendingSessionId
     IN activeSessions' = activeSessions \ {activeSessionId}
  /\ IF AdoptsPending(pendingSessionId, currentSessionId, exitCode)
       THEN currentSessionId' = pendingSessionId /\ pendingSessionId' = NoId
       ELSE UNCHANGED <<currentSessionId, pendingSessionId>>
  /\ lastEvt' = [Evt("claude-complete") EXCEPT !.session = currentSessionId,
                                               !.role = IF exitCode = 0 THEN "exit 0" ELSE "exit 1"]
  /\ localStorage' = IF exitCode = 0 THEN [localStorage EXCEPT ![PROJECT_KEY] = Absent]
                      ELSE localStorage
  /\ UNCHANGED <<chatMessages, ingested, streamBuffer, streamTimer, timeouts, stream, toolLog>>
  /\ UNCHANGED <<pageVars, chanVars, cursorVars, persistDeps, prevMessages, storageCall, uploads>>

\* claude-status: shows the working status, sets the loading state; statusData
\* says whether the event has data and what its can_interrupt is (true when
\* the event does not say)
ClaudeStatus(statusData) ==
  /\ IF statusData.hasData
       THEN /\ isLoading' = TRUE
            /\ canAbortSession' = statusData.can_interrupt
       ELSE UNCHANGED <<isLoading, canAbortSession>>
  /\ lastEvt' = [Evt("claude-status") EXCEPT !.open = statusData.hasData]
  /\ UNCHANGED <<chatMessages, ingested, streamBuffer, streamTimer, timeouts, stream, toolLog>>
  /\ UNCHANGED <<pageVars, sessVars, chanVars, cursorVars, storeVars, uploads>>

\* handleAbortSession: sends abort-session when a session id is tracked and the
\* turn can be aborted
HandleAbortSession ==
  /\ lastEvt' = [Evt("abort-request") EXCEPT
                   !.sent = IF currentSessionId # NoId /\ canAbortSession
                              THEN <<"abort-session", currentSessionId>> ELSE <<>>]
  /\ UNCHANGED <<chatMessages, ingested, streamBuffer, streamTimer, timeouts, isLoading, canAbortSession,
                 stream, toolLog>>
  /\ UNCHANGED <<pageVars, sessVars, chanVars, cursorVars, storeVars, uploads>>

\* ------------------------------------------------- the socket message effect
\* the events the socket delivers: latestMessage.type and its payload
\* (hasData: latestMessage.data is an object; a payload without array or text is
\* one whose content is missing or neither an array nor a string)
NoContent == Payload("assistant", FALSE, <<>>, <<>>)

ChannelEvents ==
  {[type |-> "claude-response", hasData |-> TRUE,
    data |-> Payload("assistant", TRUE, <<Part("text", NoId, <<"x">>)>>, <<>>)],
   [type |-> "claude-response", hasData |-> TRUE,
    data |-> Payload("assistant", TRUE, <<Part("tool_use", "t1", <<>>)>>, <<>>)],
   [type |-> "claude-response", hasData |-> TRUE, data |-> NoContent],
   [type |-> "claude-response", hasData |-> FALSE, data |-> NoContent],
   [type |-> "claude-error", hasData |-> FALSE, data |-> NoContent]}

\* the socket delivers an event: the messages prop grows by one
Deliver(e) ==
  /\ Len(messages) < MaxEvents
  /\ messages' = Append(messages, e)
  /\ UNCHANGED <<chatMessages, ingested, streamBuffer, streamTimer, timeouts, isLoading, canAbortSession,
                 stream, toolLog, lastEvt, handled, effectThrew>>
  /\ UNCHANGED <<pageVars, sessVars, cursorVars, storeVars, uploads>>

\* switch (latestMessage.type) for the events of ChannelEvents
HandleLatest(chat, latestMessage) ==
  IF latestMessage.type = "claude-response" THEN HandleResponseContent(chat, latestMessage.data)
  ELSE IF latestMessage.type = "claude-error" THEN Append(chat, Msg("error", <<"Error: ", "e">>))
  ELSE chat

\* const messageData = latestMessage.data.message || latestMessage.data: reading
\* a property of an absent data is a TypeError, and no try/catch surrounds the case
EffectThrows(latestMessage) ==
  latestMessage.type = "claude-response" /\ ~latestMessage.hasData

\* the position the effect handled last, 0 before its first run
LastHandled == IF handled = <<>> THEN 0 ELSE Last(handled)

\* useEffect([messages]): runs once after the render in which messages changed
\* and handles messages[messages.length - 1]
MessageEffect ==
  /\ ~effectThrew
  /\ Len(messages) > 0
  /\ LastHandled # Len(messages)
  /\ handled' = Append(handled, Len(messages))
  /\ effectThrew' = EffectThrows(Last(messages))
  /\ IF EffectThrows(Last(messages))
       THEN /\ lastEvt' = Evt(Last(messages).type)
            /\ UNCHANGED <<chatMessages, ingested, toolLog, stream>>
       ELSE /\ chatMessages' = HandleLatest(chatMessages, Last(messages))
            /\ ingested' = ingested + (Len(chatMessages') - Len(chatMessages))
            /\ lastEvt' = [Evt(Last(messages).type) EXCEPT !.role = Last(messages).data.role,
                                                           !.parts = Last(messages).data.parts]
            /\ toolLog' = IF Last(messages).type = "claude-response"
                            THEN LogToolParts(toolLog, Last(messages).data) ELSE toolLog
            /\ stream' = NoStream
  /\ UNCHANGED <<streamBuffer, streamTimer, timeouts, isLoading, canAbortSession, messages>>
  /\ UNCHANGED <<pageVars, sessVars, cursorVars, storeVars, uploads>>

\* ------------------------------------------------------- history loading
liveVars == <<streamBuffer, streamTimer, timeouts, isLoading, canAbortSession, pendingSessionId,
              activeSessions, stream, toolLog>>

\* the state the handleScroll and loadSessionMessages callbacks close over
\* (the dependency lists of their useCallback)
View ==
  [hasMore |-> hasMoreMessages, loadingMore |-> isLoadingMoreMessages,
   session |-> selectedSession, offset |-> messagesOffset]

\* the same state after the step
ViewNext ==
  [hasMore |-> hasMoreMessages', loadingMore |-> isLoadingMoreMessages',
   session |-> selectedSession', offset |-> messagesOffset']

\* the render that follows handleScroll's setIsLoadingMoreMessages(true): the
\* callbacks are created again over the current state. The other steps are
\* taken together with the render that follows them
Render ==
  /\ scrollView # View
  /\ scrollView' = View
  /\ lastEvt' = Evt("render")
  /\ UNCHANGED <<chatMessages, sessionMessages, ingested, selectedSession, currentSessionId,
                 isSystemSessionChange, messagesOffset, hasMoreMessages, totalMessages,
                 isLoadingSessionMessages, isLoadingMoreMessages, initFetch, moreFetch,
                 srvPaged, retryOffset>>
  /\ UNCHANGED liveVars
  /\ UNCHANGED <<chanVars, cursorVars, storeVars, uploads>>

\* the loadMessages effect (Claude provider) for selected session sel, run with
\* isSystemSessionChange = flag. With the flag set it resets the flag, which is
\* a dependency of the effect, so the effect runs again with the flag clear and
\* loads the session; the fetch it starts remembers the flag of the first run
LoadMessagesEffect(sel, flag) ==
  /\ messagesOffset' = 0
  /\ hasMoreMessages' = FALSE
  /\ totalMessages' = 0
  /\ retryOffset' = NoParam
  /\ IF sel # NoId
       THEN /\ currentSessionId' = sel
            /\ isSystemSessionChange' = FALSE
            /\ isLoadingSessionMessages' = TRUE
            /\ initFetch' = initFetch \cup
                 {[session |-> sel, offset |-> 0, system |-> flag,
                   req |-> ApiSessionMessages(sel, MESSAGES_PER_PAGE, 0)]}
            /\ UNCHANGED <<chatMessages, sessionMessages, ingested>>
       ELSE /\ currentSessionId' = NoId
            /\ isSystemSessionChange' = flag
            /\ IF ~flag /\ ~isLoading
                 THEN chatMessages' = <<>> /\ sessionMessages' = <<>> /\ ingested' = 0
                 ELSE UNCHANGED <<chatMessages, sessionMessages, ingested>>
            /\ UNCHANGED <<isLoadingSessionMessages, initFetch>>

\* the selectedSession prop changes and the loadMessages effect runs
SelectSession(s) ==
  /\ s # selectedSession
  /\ selectedSession' = s
  /\ LoadMessagesEffect(s, isSystemSessionChange)
  /\ lastEvt' = [Evt("select-session") EXCEPT !.role = s, !.session = s]
  /\ UNCHANGED <<isLoadingMoreMessages, moreFetch, srvPaged>>
  /\ scrollView' = ViewNext
  /\ UNCHANGED liveVars
  /\ UNCHANGED <<chanVars, cursorVars, storeVars, uploads>>

\* claude-response system/init (or cursor-system init) with a session id other
\* than the tracked one: sets isSystemSessionChange and calls onNavigateToSession.
\* The parent applies the navigation in the same render (batched) or in a later
\* one (then SelectSession delivers it); the loadMessages effect runs because
\* the flag changed
SystemInit(sid, batched) ==
  /\ sid # currentSessionId
  /\ selectedSession' = IF batched THEN sid ELSE selectedSession
  /\ LoadMessagesEffect(selectedSession', TRUE)
  /\ lastEvt' = [Evt("system-init") EXCEPT !.session = sid, !.system = TRUE,
                                           !.sent = <<"navigate", sid>>]
  /\ UNCHANGED <<isLoadingMoreMessages, moreFetch, srvPaged>>
  /\ scrollView' = ViewNext
  /\ UNCHANGED liveVars
  /\ UNCHANGED <<chanVars, cursorVars, storeVars, uploads>>

\* handleNewSession: clears the transcript and the loading state
HandleNewSession ==
  /\ chatMessages' = <<>>
  /\ ingested' = 0
  /\ isLoading' = FALSE
  /\ canAbortSession' = FALSE
  /\ lastEvt' = Evt("new-session")
  /\ stream' = NoStream
  /\ UNCHANGED <<streamBuffer, streamTimer, timeouts, toolLog>>
  /\ UNCHANGED <<pageVars, sessVars>>
  /\ UNCHANGED <<chanVars, cursorVars, storeVars, uploads>>

\* what loadSessionMessages returns for a response, [] when the fetch failed
LoadedMessages(ok, resp) == IF ok THEN resp.messages ELSE <<>>

\* a loadSessionMessages that moves the offset on although the fetch failed
LoadedPagination_AdvanceOnFail(f, ok, resp) ==
  IF ~ok
    THEN [hasMore |-> hasMoreMessages, total |-> totalMessages, offset |-> f.offset + MESSAGES_PER_PAGE]
  ELSE IF resp.hasMoreDefined
    THEN [hasMore |-> resp.hasMore, total |-> resp.total, offset |-> f.offset + Len(resp.messages)]
  ELSE [hasMore |-> FALSE, total |-> Len(resp.messages), offset |-> messagesOffset]

\* the pagination state loadSessionMessages sets from a response
LoadedPagination(f, ok, resp) ==
  IF ~ok
    THEN [hasMore |-> hasMoreMessages, total |-> totalMessages, offset |-> messagesOffset]
  ELSE IF resp.hasMoreDefined
    THEN [hasMore |-> resp.hasMore, total |-> resp.total, offset |-> f.offset + Len(resp.messages)]
  ELSE [hasMore |-> FALSE, total |-> Len(resp.messages), offset |-> messagesOffset]

\* the initial fetch of loadMessages resolves: setSessionMessages(messages), then the sync effect
InitialLoadDone(f, ok) ==
  /\ f \in initFetch
  /\ initFetch' = initFetch \ {f}
  /\ LET resp == FetchPage(f.req, srvPaged)
         loaded == LoadedMessages(ok, resp)
     IN /\ hasMoreMessages' = LoadedPagination(f, ok, resp).hasMore
        /\ totalMessages' = LoadedPagination(f, ok, resp).total
        /\ messagesOffset' = LoadedPagination(f, ok, resp).offset
        /\ sessionMessages' = loaded
        /\ chatMessages' = SyncChatMessages(chatMessages, loaded)
        /\ ingested' = IF Len(loaded) > 0 THEN Len(chatMessages') ELSE ingested
  /\ isLoadingSessionMessages' = FALSE
  /\ retryOffset' = NoParam
  /\ lastEvt' = [Evt("initial-load") EXCEPT !.role = f.session, !.session = f.session,
                                            !.system = f.system]
  /\ UNCHANGED <<selectedSession, currentSessionId, isSystemSessionChange,
                 isLoadingMoreMessages, moreFetch, srvPaged>>
  /\ scrollView' = ViewNext
  /\ UNCHANGED liveVars
  /\ UNCHANGED <<chanVars, cursorVars, storeVars, uploads>>

\* a number no load-more fetch in flight carries
FreshFetch == CHOOSE k \in 0..MaxFetch : \A f \in moreFetch : f.n # k

\* handleScroll near the top: the guard and the request use the state the
\* callback closed over; setIsLoadingMoreMessages(true) is seen by the next render
HandleScroll ==
  /\ scrollView.hasMore
  /\ ~scrollView.loadingMore
  /\ scrollView.session # NoId
  /\ Cardinality(moreFetch) < MaxFetch
  /\ Len(sessionMessages) + (Cardinality(moreFetch) + 1) * MESSAGES_PER_PAGE <= MaxSession
  /\ ingested + (Cardinality(moreFetch) + 1) * MESSAGES_PER_PAGE <= MaxIngested
  /\ scrollView.offset + MESSAGES_PER_PAGE <= MaxSession
  /\ isLoadingMoreMessages' = TRUE
  /\ moreFetch' = moreFetch \cup
       {[session |-> scrollView.session, offset |-> scrollView.offset, n |-> FreshFetch,
         req |-> ApiSessionMessages(scrollView.session, MESSAGES_PER_PAGE, scrollView.offset)]}
  /\ lastEvt' = [Evt("scroll") EXCEPT !.session = scrollView.session]
  /\ UNCHANGED <<chatMessages, sessionMessages, ingested, selectedSession, currentSessionId,
                 isSystemSessionChange, messagesOffset, hasMoreMessages, totalMessages,
                 isLoadingSessionMessages, initFetch, srvPaged, scrollView, retryOffset>>
  /\ UNCHANGED liveVars
  /\ UNCHANGED <<chanVars, cursorVars, storeVars, uploads>>

\* the load-more fetch resolves: prepend the page, then the sync effect
LoadMoreDone(f, ok) ==
  /\ f \in moreFetch
  /\ moreFetch' = moreFetch \ {f}
  /\ LET resp == FetchPage(f.req, srvPaged)
         moreMessages == LoadedMessages(ok, resp)
     IN /\ hasMoreMessages' = LoadedPagination(f, ok, resp).hasMore
        /\ totalMessages' = LoadedPagination(f, ok, resp).total
        /\ messagesOffset' = LoadedPagination(f, ok, resp).offset
        /\ IF Len(moreMessages) > 0
             THEN /\ sessionMessages' = moreMessages \o sessionMessages
                  /\ chatMessages' = SyncChatMessages(chatMessages, sessionMessages')
                  /\ ingested' = ingested + Len(convertSessionMessages(moreMessages))
             ELSE UNCHANGED <<sessionMessages, chatMessages, ingested>>
  /\ isLoadingMoreMessages' = FALSE
  /\ retryOffset' = IF ok THEN NoParam ELSE messagesOffset
  /\ lastEvt' = [Evt("load-more") EXCEPT !.role = IF ok THEN "ok" ELSE "failed",
                                         !.session = f.session]
  /\ UNCHANGED <<selectedSession, currentSessionId, isSystemSessionChange,
                 isLoadingSessionMessages, initFetch, srvPaged>>
  /\ scrollView' = ViewNext
  /\ UNCHANGED liveVars
  /\ UNCHANGED <<chanVars, cursorVars, storeVars, uploads>>

\* ------------------------------------------------- Cursor session history
\* The raw bytes of a blob are a sequence of tokens: bytes outside printable
\* ASCII, printable text that is no JSON, braces, the literal null, the key
\* "message" in front of an object, and the members of a record (its role and
\* the parts of its content array)
Tok(k, v) == [k |-> k, v |-> v]
LB == Tok("{", <<>>)
RB == Tok("}", <<>>)
JUNK == Tok("junk", <<>>)
GARBAGE == Tok("garbage", <<>>)
NULL == Tok("null", <<>>)
MESSAGE == Tok("message", <<>>)
RoleTok(r) == Tok("role", <<r>>)
TextPart(t) == Tok("text", t)
ToolCall(id) == Tok("tool-call", <<id>>)
ToolResultPart(id) == Tok("tool-result", <<id>>)

MemberKinds == {"role", "text", "tool-call", "tool-result"}

\* the blobs cursor-agent writes to store.db
BlobData ==
  {<<LB, RoleTok("user"), TextPart(<<"hi">>), RB>>,
   <<LB, RoleTok("user"), TextPart(<<SP>>), RB>>,
   <<LB, RoleTok("system"), TextPart(<<"sys">>), RB>>,
   <<LB, MESSAGE, LB, RoleTok("system"), TextPart(<<"sys">>), RB, RB>>,
   <<LB, MESSAGE, LB, RoleTok("user"), TextPart(<<"hi">>), RB, RB>>,
   <<LB, RoleTok("assistant"), TextPart(<<"a">>), ToolCall("t1"), TextPart(<<"b">>), RB>>,
   <<LB, RoleTok("tool"), ToolResultPart("t1"), RB>>,
   <<JUNK, LB, RoleTok("assistant"), JUNK, TextPart(<<"w">>), RB, JUNK>>,
   <<LB, RoleTok("user"), TextPart(<<"hi">>), RB, LB, RB>>,
   <<JUNK, GARBAGE>>,
   <<NULL>>}

\* what JSON.parse returns: a value, its truthiness, and for a record the role
\* and content parts (found at the top level, or under message when nested)
JsonValue(truthy, nested, role, parts) ==
  [truthy |-> truthy, nested |-> nested, role |-> role, parts |-> parts]

NullValue == JsonValue(FALSE, FALSE, NoId, <<>>)

\* the text is one object whose members are role and content parts
IsFlatObject(s) ==
  /\ Len(s) >= 2
  /\ s[1] = LB
  /\ s[Len(s)] = RB
  /\ \A i \in 2..(Len(s) - 1) : s[i].k \in MemberKinds

\* the members of a flat object as a value: the last role member wins
ObjectValue(s, nested) ==
  LET roles == SelectSeq(s, LAMBDA c : c.k = "role")
      parts == SelectSeq(s, LAMBDA c : c.k \in MemberKinds \ {"role"})
  IN JsonValue(TRUE, nested, IF roles = <<>> THEN NoId ELSE Last(roles).v[1], parts)

\* JSON.parse(text): succeeds on null, on a record, and on an object that holds
\* a record under "message"; throws on everything else
JsonParse(s) ==
  IF s = <<NULL>> THEN [ok |-> TRUE, value |-> NullValue]
  ELSE IF IsFlatObject(s) THEN [ok |-> TRUE, value |-> ObjectValue(s, FALSE)]
  ELSE IF Len(s) >= 5 /\ s[1] = LB /\ s[2] = MESSAGE /\ s[Len(s)] = RB
          /\ IsFlatObject(SubSeq(s, 3, Len(s) - 1))
    THEN [ok |-> TRUE, value |-> ObjectValue(SubSeq(s, 3, Len(s) - 1), TRUE)]
  ELSE [ok |-> FALSE, value |-> NullValue]

\* cleaned.indexOf('{') and cleaned.lastIndexOf('}'), 0 when there is none
IndexOf(s, c) ==
  IF \E i \in 1..Len(s) : s[i] = c
    THEN CHOOSE i \in 1..Len(s) : s[i] = c /\ \A j \in 1..(i - 1) : s[j] # c
    ELSE 0

LastIndexOf(s, c) ==
  IF \E i \in 1..Len(s) : s[i] = c
    THEN CHOOSE i \in 1..Len(s) : s[i] = c /\ \A j \in (i + 1)..Len(s) : s[j] # c
    ELSE 0

\* the fallback of the endpoint: drop the bytes outside printable ASCII, take
\* the text from the first '{' to the last '}'
ExtractJson(raw) ==
  LET cleaned == SelectSeq(raw, LAMBDA c : c # JUNK)
      start == IndexOf(cleaned, LB)
      end == LastIndexOf(cleaned, RB)
  IN IF start # 0 /\ end > start THEN SubSeq(cleaned, start, end) ELSE <<>>

\* a parse that gives up when the direct JSON.parse throws
ParseBlob_NoExtraction(raw) == JsonParse(raw)

\* the parse of one blob: direct, else on the extracted text
ParseBlob(raw) ==
  IF JsonParse(raw).ok THEN JsonParse(raw)
  ELSE IF ExtractJson(raw) # <<>> THEN JsonParse(ExtractJson(raw))
  ELSE [ok |-> FALSE, value |-> NullValue]

\* a filter that looks at the top-level role only
IsSystemRole_DirectOnly(value) == ~value.nested /\ value.role = "system"

\* role = parsed?.role || parsed?.message?.role; role === 'system'
IsSystemRole(value) == value.role = "system"

\* if (isValidJson && parsed) { if (role === 'system') continue; messages.push(...) }
KeepBlob(raw) ==
  /\ ParseBlob(raw).ok
  /\ ParseBlob(raw).value.truthy
  /\ ~IsSystemRole(ParseBlob(raw).value)

\* one element of the endpoint's messages array
ServerMessage(rows, i) ==
  [sequence |-> i, rowid |-> rows[i].rowid, content |-> ParseBlob(rows[i].data).value]

\* GET /sessions/:sessionId: the rows in rowid order, numbered by ROW_NUMBER(),
\* the kept ones as messages
ServerMessages(rows) ==
  LET kept == SelectSeq([i \in 1..Len(rows) |-> i], LAMBDA i : KeepBlob(rows[i].data))
  IN [k \in 1..Len(kept) |-> ServerMessage(rows, kept[k])]

\* a message of the Cursor transcript: the fields of a transcript message and
\* the blob's sequence, rowid and the time of the push
CursorMsg(type, content, blob, blobIdx) ==
  [type |-> type, content |-> content, isToolUse |-> FALSE, toolId |-> NoId,
   toolResult |-> <<>>, isStreaming |-> FALSE,
   sequence |-> blob.sequence, rowid |-> blob.rowid, timestamp |-> blobIdx]

\* the state of the conversion loop: the converted list, and toolUseMap as the
\* position of the message registered for each tool id (0: none)
NoToolUses == [t \in ToolIds |-> 0]

\* role 'tool': each tool-result item fills the registered tool-use message, or
\* becomes a standalone tool message
RECURSIVE LinkToolResults(_, _, _, _)
LinkToolResults(acc, items, blob, blobIdx) ==
  IF items = <<>> THEN acc
  ELSE LET item == Head(items)
           toolCallId == item.v[1]
           result == ToolResultValue(<<"r">>, FALSE)
           next ==
             IF item.k # "tool-result" THEN acc
             ELSE IF acc.toolUseMap[toolCallId] # 0
               THEN [acc EXCEPT !.converted[acc.toolUseMap[toolCallId]].toolResult = result]
             ELSE [acc EXCEPT !.converted =
                     Append(@, [CursorMsg("assistant", <<>>, blob, blobIdx) EXCEPT
                                  !.isToolUse = TRUE, !.toolId = toolCallId, !.toolResult = result])]
       IN LinkToolResults(next, Tail(items), blob, blobIdx)

\* user or assistant record, array content: text parts are collected; a
\* tool-call first pushes the text collected so far, then the tool-use message,
\* and registers it
RECURSIVE CollectParts(_, _, _, _, _)
CollectParts(acc, parts, role, blob, blobIdx) ==
  IF parts = <<>> THEN acc
  ELSE LET part == Head(parts)
           flushed == IF acc.textParts # <<>>
                        THEN Append(acc.converted, CursorMsg(role, JoinLines(acc.textParts), blob, blobIdx))
                        ELSE acc.converted
           next ==
             IF part.k = "text" /\ part.v # <<>>
               THEN [acc EXCEPT !.textParts = Append(@, part.v)]
             ELSE IF part.k = "tool-call"
               THEN [converted |-> Append(flushed, [CursorMsg("assistant", <<>>, blob, blobIdx) EXCEPT
                                                      !.isToolUse = TRUE, !.toolId = part.v[1]]),
                     toolUseMap |-> [acc.toolUseMap EXCEPT ![part.v[1]] = Len(flushed) + 1],
                     textParts |-> <<>>]
             ELSE acc
       IN CollectParts(next, Tail(parts), role, blob, blobIdx)

\* if (text && text.trim()) converted.push({type: role, content: text, ...})
PushText(acc, role, text, blob, blobIdx) ==
  IF text # <<>> /\ TrimNonEmpty(text)
    THEN [acc EXCEPT !.converted = Append(@, CursorMsg(role, text, blob, blobIdx))]
    ELSE acc

\* one iteration of the loop over the endpoint's messages
ConvertBlob(acc, blob, blobIdx) ==
  LET content == blob.content
      hasRecord == content.role # NoId /\ content.parts # <<>>
      role == IF content.role = "user" THEN "user" ELSE "assistant"
      start == [converted |-> acc.converted, toolUseMap |-> acc.toolUseMap, textParts |-> <<>>]
  IN IF ~hasRecord \/ content.role = "system" THEN start
     ELSE IF content.nested
       THEN LET texts == SelectSeq(content.parts, LAMBDA p : p.k = "text" /\ p.v # <<>>)
            IN PushText(start, role, JoinLines([i \in 1..Len(texts) |-> texts[i].v]), blob, blobIdx)
     ELSE IF content.role = "tool"
       THEN LinkToolResults(start, content.parts, blob, blobIdx)
     ELSE LET collected == CollectParts(start, content.parts, role, blob, blobIdx)
          IN PushText(collected, role, JoinLines(collected.textParts), blob, blobIdx)

\* the first pass of loadCursorSessionMessages: the messages in push order
RECURSIVE ConvertBlobs(_, _, _)
ConvertBlobs(acc, list, blobIdx) ==
  IF list = <<>> THEN acc.converted
  ELSE ConvertBlobs(ConvertBlob(acc, Head(list), blobIdx), Tail(list), blobIdx + 1)

ConvertCursorBlobs(list) ==
  ConvertBlobs([converted |-> <<>>, toolUseMap |-> NoToolUses, textParts |-> <<>>], list, 0)

\* a comparator that puts the higher sequence first
CompareMessages_Descending(a, b) == b.sequence - a.sequence

\* the comparator of converted.sort: sequence, else rowid, else timestamp
\* (NoParam stands for an undefined field)
CompareMessages(a, b) ==
  IF a.sequence # NoParam /\ b.sequence # NoParam THEN a.sequence - b.sequence
  ELSE IF a.rowid # NoParam /\ b.rowid # NoParam THEN a.rowid - b.rowid
  ELSE a.timestamp - b.timestamp

\* Array.prototype.sort is stable: an element goes behind every element that
\* does not compare greater
RECURSIVE InsertSorted(_, _)
InsertSorted(sorted, m) ==
  IF sorted = <<>> THEN <<m>>
  ELSE IF CompareMessages(Last(sorted), m) <= 0 THEN Append(sorted, m)
  ELSE Append(InsertSorted(Front(sorted), m), Last(sorted))

RECURSIVE SortMessages(_)
SortMessages(list) ==
  IF list = <<>> THEN <<>>
  ELSE InsertSorted(SortMessages(Front(list)), Last(list))

\* what loadCursorSessionMessages returns for a response
LoadedCursorMessages(response) ==
  IF response.status = "ok" THEN SortMessages(ConvertCursorBlobs(response.messages)) ELSE <<>>

NoResponse == [status |-> "none", messages |-> <<>>, rows |-> <<>>]

\* cursor-agent appends a blob to store.db; rowids grow, with gaps where rows
\* were deleted
WriteBlob(data, gap) ==
  /\ Len(blobs) < MaxBlobs
  /\ blobs' = Append(blobs, [rowid |-> (IF blobs = <<>> THEN 0 ELSE Last(blobs).rowid) + gap,
                             data |-> data])
  /\ lastEvt' = Evt("write-blob")
  /\ UNCHANGED <<chatMessages, ingested, cursorResponse>>
  /\ UNCHANGED <<pageVars, sessVars, liveOnly, chanVars, storeVars, uploads>>

\* the loadMessages effect for a Cursor session: the request reaches the
\* endpoint, which answers from the rows of that moment (dbOpens), or with
\* status 500 when store.db cannot be opened
LoadCursorSession(dbOpens) ==
  /\ cursorResponse = NoResponse
  /\ cursorResponse' = IF dbOpens
                         THEN [status |-> "ok", messages |-> ServerMessages(blobs), rows |-> blobs]
                         ELSE [status |-> "failed", messages |-> <<>>, rows |-> blobs]
  /\ isLoadingSessionMessages' = TRUE
  /\ lastEvt' = Evt("cursor-request")
  /\ UNCHANGED <<chatMessages, ingested, blobs>>
  /\ UNCHANGED <<sessionMessages, selectedSession, isSystemSessionChange, messagesOffset,
                 hasMoreMessages, totalMessages, isLoadingMoreMessages, initFetch, moreFetch,
                 srvPaged, scrollView, retryOffset>>
  /\ UNCHANGED <<sessVars, liveOnly, chanVars, storeVars, uploads>>

\* the response arrives: setSessionMessages([]); setChatMessages(converted)
LoadCursorSessionDone ==
  /\ cursorResponse # NoResponse
  /\ cursorResponse' = NoResponse
  /\ isLoadingSessionMessages' = FALSE
  /\ sessionMessages' = <<>>
  /\ chatMessages' = LoadedCursorMessages(cursorResponse)
  /\ ingested' = Len(chatMessages')
  /\ lastEvt' = [Evt("cursor-load") EXCEPT !.role = cursorResponse.status]
  /\ UNCHANGED blobs
  /\ UNCHANGED <<selectedSession, isSystemSessionChange, messagesOffset,
                 hasMoreMessages, totalMessages, isLoadingMoreMessages, initFetch, moreFetch,
                 srvPaged, scrollView, retryOffset>>
  /\ UNCHANGED <<sessVars, liveOnly, chanVars, storeVars, uploads>>

\* ------------------------------------------------------ persisting the chat
\* useEffect([chatMessages, selectedProject]): stores the transcript when it is
\* not empty; runs once after every change of the transcript
PersistEffect(outcome) ==
  /\ chatMessages # persistDeps
  /\ IF Len(chatMessages) > 0
       THEN /\ localStorage' = SetItem(localStorage, PROJECT_KEY, JsonArray(chatMessages), outcome).store
            /\ storageCall' = Call(localStorage, PROJECT_KEY, JsonArray(chatMessages), outcome)
       ELSE /\ outcome = <<"ok", "ok", "ok">>
            /\ UNCHANGED <<localStorage, storageCall>>
  /\ persistDeps' = chatMessages
  /\ prevMessages' = persistDeps
  /\ lastEvt' = Evt("persist")
  /\ UNCHANGED <<chatMessages, ingested, stream, toolLog, streamBuffer, streamTimer, timeouts, isLoading,
                 canAbortSession, uploads>>
  /\ UNCHANGED <<pageVars, sessVars, chanVars, cursorVars>>

\* a call of safeLocalStorage.setItem with any key and value
SetItemCall(key, value, outcome) ==
  /\ localStorage' = SetItem(localStorage, key, value, outcome).store
  /\ storageCall' = Call(localStorage, key, value, outcome)
  /\ lastEvt' = Evt("setItem")
  /\ UNCHANGED <<chatMessages, ingested, stream, toolLog, streamBuffer, streamTimer, timeouts, isLoading,
                 canAbortSession, persistDeps, prevMessages, uploads>>
  /\ UNCHANGED <<pageVars, sessVars, chanVars, cursorVars>>

\* ------------------------------------------------------------ specifications
InitCore ==
  /\ chatMessages = <<>>
  /\ sessionMessages = <<>>
  /\ streamBuffer = <<>>
  /\ streamTimer = "none"
  /\ timeouts = 0
  /\ isLoading = FALSE
  /\ canAbortSession = FALSE
  /\ selectedSession = NoId
  /\ currentSessionId = selectedSession
  /\ pendingSessionId = NoId
  /\ isSystemSessionChange = FALSE
  /\ messagesOffset = 0
  /\ hasMoreMessages = FALSE
  /\ totalMessages = 0
  /\ isLoadingSessionMessages = FALSE
  /\ isLoadingMoreMessages = FALSE
  /\ initFetch = {}
  /\ moreFetch = {}
  /\ srvPaged \in BOOLEAN
  /\ scrollView = [hasMore |-> FALSE, loadingMore |-> FALSE, session |-> NoId, offset |-> 0]
  /\ retryOffset = NoParam
  /\ activeSessions = {}
  /\ messages = <<>>
  /\ handled = <<>>
  /\ effectThrew = FALSE
  /\ blobs = <<>>
  /\ cursorResponse = NoResponse
  /\ persistDeps = chatMessages
  /\ prevMessages = chatMessages
  /\ storageCall = NoCall
  /\ uploads = <<>>
  /\ lastEvt = Evt("init")
  /\ ingested = 0
  /\ stream = NoStream
  /\ toolLog = [t \in ToolIds |-> [uses |-> 0, resultAfter |-> FALSE]]

\* the component mounts on an empty store
Init == InitCore /\ localStorage = [k \in StorageKeys |-> Absent]

\* the live channel runs against one history source
InitLive == Init /\ srvPaged = TRUE

\* the live channel: tool events, text, errors, abort
NextTools ==
  \/ \E p \in ResponsePayloads : ClaudeResponse(p)
  \/ SessionAborted
  \/ ClaudeError
  \/ CursorError
  \/ \E input \in {<<"u">>} : HandleSubmit(input)

SpecTools == InitLive /\ [][NextTools]_vars

\* the live channel: streaming fragments, timer, stop, final result, abort
NextStream ==
  \/ \E f \in Frags : ContentBlockDelta(f)
  \/ StreamTimerFires
  \/ ContentBlockStop
  \/ \E t \in ResultTexts, e \in BOOLEAN : CursorResult(t, e)
  \/ SessionAborted
  \/ \E p \in StreamPayloads : ClaudeResponse(p)
  \/ \E input \in {<<"u">>} : HandleSubmit(input)

SpecStream == InitLive /\ [][NextStream]_vars

\* the live channel: fragments and raw output into the buffer, the timer
\* flushes, tool-use and error messages in between
NextFlush ==
  \/ \E f \in Frags : ContentBlockDelta(f)
  \/ \E t \in OutputTexts : ClaudeOutput(t)
  \/ StreamTimerFires
  \/ \E p \in StreamPayloads : ClaudeResponse(p)
  \/ ClaudeError

SpecFlush == InitLive /\ [][NextFlush]_vars

\* a Cursor session: cursor-agent writes blobs, the client loads the session
NextCursor ==
  \/ \E data \in BlobData, gap \in {1, 2} : WriteBlob(data, gap)
  \/ \E dbOpens \in BOOLEAN : LoadCursorSession(dbOpens)
  \/ LoadCursorSessionDone

SpecCursor == InitLive /\ [][NextCursor]_vars

\* history loading and backfill, interleaved with live appends
PagePayloads == {Payload("assistant", TRUE, <<Part("text", NoId, <<"x">>)>>, <<>>)}

\* the transcript holds fewer than MaxLive messages beyond the converted history
LiveRoom == Len(chatMessages) < Len(convertSessionMessages(sessionMessages)) + MaxLive

NextPage ==
  \/ \E s \in Sessions \cup {NoId} : SelectSession(s)
  \/ \E f \in initFetch, ok \in BOOLEAN : InitialLoadDone(f, ok)
  \/ Render
  \/ HandleScroll
  \/ \E f \in moreFetch, ok \in BOOLEAN : LoadMoreDone(f, ok)
  \/ HandleNewSession
  \/ \E p \in PagePayloads : LiveRoom /\ ClaudeResponse(p)

SpecPage == Init /\ [][NextPage]_vars

\* session switches raised by the live channel, interleaved with user selection,
\* history loads and live appends
NextSwitch ==
  \/ \E s \in Sessions \cup {NoId} : SelectSession(s)
  \/ \E sid \in Sessions, batched \in BOOLEAN : SystemInit(sid, batched)
  \/ \E f \in initFetch, ok \in BOOLEAN : InitialLoadDone(f, ok)
  \/ \E p \in PagePayloads : LiveRoom /\ ClaudeResponse(p)

SpecSwitch == Init /\ [][NextSwitch]_vars

\* a turn: submit, the server's session id, completion, abort
NextTurn ==
  \/ \E s \in Sessions \cup {NoId} : SelectSession(s)
  \/ \E input \in {<<"u">>} : HandleSubmit(input)
  \/ \E sid \in Sessions : SessionCreated(sid)
  \/ \E exitCode \in {0, 1} : ClaudeComplete(exitCode)
  \/ SessionAborted
  \/ HandleAbortSession

SpecTurn == Init /\ [][NextTurn]_vars

\* the entries a snapshot of n messages holds
SnapshotItems(n) == [i \in 1..n |-> Msg("user", <<"m", <<"1", "2", "3", "4", "5", "6", "7">>[i]>>)]

\* the stores a setItem call may find: snapshots of other projects, an older
\* snapshot of this project, drafts
InitialStores ==
  {[k \in StorageKeys |->
      IF k \in present
        THEN (IF k \in ChatKeySet THEN JsonArray(SnapshotItems(2)) ELSE PlainString(<<"d">>))
        ELSE Absent] : present \in SUBSET (ChatKeySet \cup DraftKeys)}

\* the component mounted on any of these stores
InitQuota == InitCore /\ srvPaged = TRUE /\ localStorage \in InitialStores

\* safeLocalStorage.setItem on any store, with any outcome of the native writes,
\* for arrays up to one entry over the cap and for a plain string; a behaviour
\* looks at one call
NextQuota ==
  /\ storageCall = NoCall
  /\ \E key \in {PROJECT_KEY, "draft_input_p", "auth-token"},
        value \in {JsonArray(SnapshotItems(n)) : n \in 0..(SAVED_MAX + 1)}
                     \cup {PlainString(<<"t">>)},
        outcome \in Outcomes : SetItemCall(key, value, outcome)

SpecQuota == InitQuota /\ [][NextQuota]_vars

\* the transcript and its snapshot: every change of the transcript is followed
\* by the persist effect before the next event is handled
NextStore ==
  \/ \E outcome \in Outcomes : PersistEffect(outcome)
  \/ /\ chatMessages = persistDeps
     /\ \/ \E input \in {<<"u">>} : HandleSubmit(input)
        \/ ClaudeError
        \/ \E exitCode \in {0, 1} : ClaudeComplete(exitCode)
        \/ HandleNewSession

SpecStore == InitLive /\ [][NextStore]_vars

\* the stream buffer: its three producers, the timer, and the stop and result
\* handlers that clear it
NextBuffer ==
  \/ \E f \in {<<"a">>} : ContentBlockDelta(f)
  \/ \E t \in OutputTexts : ClaudeOutput(t)
  \/ \E raw \in {<<ANSI>>, <<ANSI, "o", SP>>} : CursorOutput(raw)
  \/ StreamTimerFires
  \/ ContentBlockStop
  \/ \E t \in {<<>>, <<"F">>} : CursorResult(t, FALSE)

SpecBuffer == InitLive /\ [][NextBuffer]_vars

\* a streamed turn and its end: fragments and raw output, the timer, and the
\* three events that end a turn
NextEnd ==
  \/ \E f \in {<<"a">>} : ContentBlockDelta(f)
  \/ \E t \in {<<"o">>} : ClaudeOutput(t)
  \/ StreamTimerFires
  \/ \E t \in {<<>>, <<"F">>} : CursorResult(t, FALSE)
  \/ \E exitCode \in {0, 1} : ClaudeComplete(exitCode)
  \/ SessionAborted

SpecEnd == InitLive /\ [][NextEnd]_vars

\* submits with and without attachments, the uploads resolving, and the turn
NextSubmit ==
  \/ \E input \in {<<"u">>} : HandleSubmit(input)
  \/ \E input \in {<<"u">>} : SubmitWithImages(input)
  \/ \E i \in 1..MaxUploads, ok \in BOOLEAN : UploadDone(i, ok)
  \/ \E sid \in Sessions : SessionCreated(sid)
  \/ \E exitCode \in {0, 1} : ClaudeComplete(exitCode)

SpecSubmit == Init /\ [][NextSubmit]_vars

\* a turn with its status events: submit, status, and the three events that
\* end a turn
NextStatus ==
  \/ \E input \in {<<"u">>} : HandleSubmit(input)
  \/ \E hasData, can_interrupt \in BOOLEAN :
       ClaudeStatus([hasData |-> hasData, can_interrupt |-> can_interrupt])
  \/ \E sid \in Sessions : SessionCreated(sid)
  \/ \E exitCode \in {0, 1} : ClaudeComplete(exitCode)
  \/ \E t \in {<<>>, <<"F">>} : CursorResult(t, FALSE)
  \/ SessionAborted

SpecStatus == Init /\ [][NextStatus]_vars

\* the socket and the message effect
NextChannel ==
  \/ \E e \in ChannelEvents : Deliver(e)
  \/ MessageEffect

SpecChannel == InitLive /\ [][NextChannel]_vars

TypeOK == Len(chatMessages) <= MaxMsgs + 1 + MaxSession

\* ------------------------------------------------------------------ claims
\* a load-more step that prepended a page
BackfillStep == lastEvt'.type = "load-more" /\ sessionMessages' # sessionMessages

\* the page a backfill step prepended
BackfillPage == SubSeq(sessionMessages', 1, Len(sessionMessages') - Len(sessionMessages))

\* C1: whatever the interleaving of live appends and backfills, the transcript
\* holds as many messages as the batches delivered since the last bulk replace
C1_LengthIsSumOfBatches == Len(chatMessages) = ingested

\* C2: a backfill leaves every message that was in the transcript in place, in
\* the same order, after the inserted block
C2_BackfillKeepsPrior ==
  [][BackfillStep => IsSuffix(chatMessages, chatMessages')]_vars

\* C3: a backfill of a page that converts to K messages grows the transcript by
\* exactly K
C3_BackfillAddsK ==
  [][BackfillStep =>
       Len(chatMessages') = Len(chatMessages) + Len(convertSessionMessages(BackfillPage))]_vars

\* the transcript positions of the tool-use messages with tool id t
ToolUsesOf(chat, t) == {i \in 1..Len(chat) : chat[i].isToolUse /\ chat[i].toolId = t}

\* C4: one live tool-use with id t followed later by a tool-result with id t
\* leaves exactly one tool-use message with that id, and it carries the result
C4_ToolUseThenResult ==
  \A t \in ToolIds :
    (toolLog[t].uses = 1 /\ toolLog[t].resultAfter) =>
       /\ Cardinality(ToolUsesOf(chatMessages, t)) = 1
       /\ \A i \in ToolUsesOf(chatMessages, t) : chatMessages[i].toolResult # <<>>

C4_Witness ==
  \E t \in ToolIds :
    /\ toolLog[t].uses = 1 /\ toolLog[t].resultAfter
    /\ \E i \in ToolUsesOf(chatMessages, t) :
         chatMessages[i].toolResult # <<>> /\ i < Len(chatMessages)

\* a claude-response step that delivered the single tool-result part q
ToolResultStep(q) ==
  /\ lastEvt'.type = "claude-response"
  /\ lastEvt'.role = "user"
  /\ lastEvt'.parts = <<q>>
  /\ q.type = "tool_result"

\* C5: a live tool-result whose id matches no tool-use message adds exactly one
\* standalone message carrying the result and changes no existing message
C5_UnknownResultStandalone ==
  [][\A t \in ToolIds :
       (ToolResultStep(Part("tool_result", t, <<"r">>)) /\ ToolUsesOf(chatMessages, t) = {}) =>
          /\ Len(chatMessages') = Len(chatMessages) + 1
          /\ Front(chatMessages') = chatMessages
          /\ Last(chatMessages').toolResult # <<>>]_vars

\* C6: one tool-result event sets the toolResult of at most one message
C6_ResultAttachesOnce ==
  [][\A t \in ToolIds :
       ToolResultStep(Part("tool_result", t, <<"r">>)) =>
          Cardinality({i \in 1..Len(chatMessages) :
                         i <= Len(chatMessages') /\
                         chatMessages'[i].toolResult # chatMessages[i].toolResult}) <= 1]_vars

\* C7: with two tool-use messages of the same id, a tool-result attaches to the
\* later one and the earlier one keeps toolResult = null
C7_LastRegistrationWins ==
  [][\A t \in ToolIds :
       (ToolResultStep(Part("tool_result", t, <<"r">>)) /\ Cardinality(ToolUsesOf(chatMessages, t)) >= 2) =>
          \A i \in ToolUsesOf(chatMessages, t) :
             IF \A j \in ToolUsesOf(chatMessages, t) : j <= i
               THEN chatMessages'[i].toolResult # <<>>
               ELSE chatMessages'[i].toolResult = chatMessages[i].toolResult]_vars

\* C8: a run of fragments followed by content_block_stop, wherever the timer
\* fired inside the run, adds exactly one message: the fragments concatenated in
\* arrival order, not streaming
C8_StreamStopOneMessage ==
  (lastEvt.type = "content_block_stop" /\ stream.text # <<>>) =>
     chatMessages = Append(stream.base, Msg("assistant", stream.text))

C8_Witness ==
  /\ lastEvt.type = "content_block_stop"
  /\ stream.text = <<"a", "b">>
  /\ stream.flushes = 1
  /\ lastEvt.pending = <<"b">>
  /\ chatMessages = Append(stream.base, Msg("assistant", <<"a", "b">>))

C10_AbortFlushesBuffer ==
  [][(lastEvt'.type = "session-aborted" /\ streamBuffer # <<>> /\ streamTimer # "none") =>
       /\ streamBuffer' = <<>>
       /\ Len(chatMessages') >= 2
       /\ Last(chatMessages') = Msg("assistant", INTERRUPTED)
       /\ IsSuffix(streamBuffer, chatMessages'[Len(chatMessages') - 1].content)
       /\ \A i \in 1..Len(chatMessages') : ~chatMessages'[i].isStreaming]_vars

\* the transcript positions of the messages that are open for streaming append
StreamingAt(chat) == {i \in 1..Len(chat) : chat[i].isStreaming}

\* C11: at most one message is open for streaming append, and an open message
\* is an assistant, non-tool-use message at the end of the transcript
C11_OneOpenStream ==
  /\ Cardinality(StreamingAt(chatMessages)) <= 1
  /\ \A i \in StreamingAt(chatMessages) :
       /\ i = Len(chatMessages)
       /\ chatMessages[i].type = "assistant"
       /\ ~chatMessages[i].isToolUse


\* the same message for the reader: toolResult may be filled in later
SameMessage(m1, m2) ==
  m1.type = m2.type /\ m1.content = m2.content /\ m1.isToolUse = m2.isToolUse

\* every message of s is found in t, in the same order
RECURSIVE IsSubsequence(_, _)
IsSubsequence(s, t) ==
  IF s = <<>> THEN TRUE
  ELSE IF t = <<>> THEN FALSE
  ELSE IF SameMessage(Head(s), Head(t)) THEN IsSubsequence(Tail(s), Tail(t))
  ELSE IsSubsequence(s, Tail(t))

\* a bulk clear: explicit new session, or selecting no session
BulkClearStep ==
  \/ lastEvt'.type = "new-session"
  \/ lastEvt'.type = "select-session" /\ lastEvt'.session = NoId

\* C12: apart from a bulk clear, no step removes a message from the transcript;
\* the history sync after a load keeps the messages that were appended live
C12_AppendPrependOnly ==
  [][~BulkClearStep => IsSubsequence(chatMessages, chatMessages')]_vars

\* the load-more fetches a scroll step started
StartedFetches == moreFetch' \ moreFetch

\* C14: a load-more starts only when more pages are flagged and no load-more is
\* in flight, so at most one load-more fetch is ever in flight
C14_OneLoadMoreInFlight ==
  [][lastEvt'.type = "scroll" =>
       /\ hasMoreMessages
       /\ ~isLoadingMoreMessages
       /\ moreFetch = {}
       /\ Cardinality(moreFetch') <= 1]_vars

\* C15: a failed load-more returns to idle and leaves offset, more-pages flag,
\* raw history and transcript as they were; the load-more after it asks for the
\* same offset with the same request
C15_FailedLoadMoreKeepsCursor ==
  [][/\ (lastEvt'.type = "load-more" /\ lastEvt'.role = "failed") =>
          /\ isLoadingMoreMessages' = FALSE
          /\ UNCHANGED <<messagesOffset, hasMoreMessages, sessionMessages, chatMessages>>
     /\ (lastEvt'.type = "scroll" /\ retryOffset # NoParam /\ scrollView = View) =>
          \A f \in StartedFetches :
             /\ f.offset = retryOffset
             /\ f.req = ApiSessionMessages(selectedSession, MESSAGES_PER_PAGE, retryOffset)]_vars

C15_Witness ==
  /\ lastEvt.type = "scroll"
  /\ retryOffset = MESSAGES_PER_PAGE
  /\ messagesOffset = retryOffset
  /\ \E f \in moreFetch : f.offset = retryOffset /\ f.session = selectedSession
  /\ Len(sessionMessages) = MESSAGES_PER_PAGE

\* C16: the request of a load-more carries the page size and the stored offset,
\* and the page a successful load-more prepends holds no record already fetched
C16_ConsecutivePages ==
  [][/\ lastEvt'.type = "scroll" =>
          \A f \in StartedFetches : f.req.offset = f.offset /\ f.req.limit = MESSAGES_PER_PAGE
     /\ BackfillStep =>
          \A i \in 1..Len(BackfillPage), j \in 1..Len(sessionMessages) :
             BackfillPage[i] # sessionMessages[j]]_vars

\* C17: a load-more of a session that is no longer the selected one changes
\* nothing of the pagination state or the raw history when it completes
C17_ReloadDiscardsPagination ==
  [][(lastEvt'.type = "load-more" /\ lastEvt'.session # selectedSession) =>
       UNCHANGED <<messagesOffset, hasMoreMessages, totalMessages, sessionMessages>>]_vars

\* C18: a system/init with another session id raises the session switch and
\* leaves the transcript alone, and a non-empty transcript is still the same
\* after the load that the session change set off
C18_SystemSwitchPreservesTranscript ==
  [][/\ lastEvt'.type = "system-init" =>
          /\ lastEvt'.sent = <<"navigate", lastEvt'.session>>
          /\ chatMessages' = chatMessages
     /\ (lastEvt'.type = "initial-load" /\ lastEvt'.system /\ chatMessages # <<>>) =>
          chatMessages' = chatMessages]_vars


\* the message effect has run since the last delivery
CaughtUp == LastHandled = Len(messages)

\* C13: once the handler has run after the last delivery, it has handled every
\* delivered event, in delivery order, each exactly once
C13_EveryEventOnceInOrder ==
  CaughtUp => handled = [i \in 1..Len(messages) |-> i]

\* the turn ended with the step just taken
TurnEnded == lastEvt.type \in {"claude-complete", "session-aborted"}

\* C19: when a turn has completed or was aborted, no session is marked active
C19_NoSessionStaysActive == TurnEnded => activeSessions = {}

\* C20: an abort request made while a turn is in progress sends abort-session
C20_AbortAlwaysSent ==
  [][(lastEvt'.type = "abort-request" /\ isLoading) =>
       (Len(lastEvt'.sent) > 0 /\ lastEvt'.sent[1] = "abort-session")]_vars

\* C22: a claude-error or cursor-error event appends an error message, leaves no
\* message streaming and clears the loading state
C22_ErrorEndsTurn ==
  [][lastEvt'.type \in {"claude-error", "cursor-error"} =>
       /\ Len(chatMessages') = Len(chatMessages) + 1
       /\ Last(chatMessages').type = "error"
       /\ StreamingAt(chatMessages') = {}
       /\ ~isLoading'
       /\ ~canAbortSession']_vars

\* a claude-response whose data is missing, or whose content is missing or
\* neither an array nor a string
Malformed(e) ==
  e.type = "claude-response" /\ (~e.hasData \/ (~e.data.isArray /\ e.data.text = <<>>))

\* C23: a malformed live event is skipped without an exception escaping the
\* handler: the transcript, the stream buffer and the loading state stay as they
\* were, and the handler goes on handling later events
C23_MalformedEventSkipped ==
  [][(handled' # handled /\ Malformed(Last(messages))) =>
       /\ ~effectThrew'
       /\ UNCHANGED <<chatMessages, streamBuffer, streamTimer, isLoading, canAbortSession>>]_vars

\* C24: a live event that arrives while a load-more is in flight is applied at
\* once, and when the page is merged the transcript holds every message it held
\* before, live ones included, together with the whole converted page
C24_MergeKeepsLiveMessages ==
  [][/\ (lastEvt'.type = "claude-response" /\ moreFetch # {}) =>
          (Len(chatMessages') = Len(chatMessages) + 1 /\ Front(chatMessages') = chatMessages)
     /\ BackfillStep =>
          /\ IsSubsequence(chatMessages, chatMessages')
          /\ IsSubsequence(convertSessionMessages(BackfillPage), chatMessages')]_vars

\* a timer callback that found text in the buffer
FlushStep == lastEvt'.type = "timer" /\ lastEvt'.text # <<>>

\* C25: a stream flush changes at most the last message: it appends the buffered
\* text to the last message only if that one is an assistant, non-tool-use,
\* streaming message, otherwise it pushes one new streaming message; every other
\* message stays as it was
C25_FlushTouchesOnlyLast ==
  [][FlushStep =>
       IF OpenStream(chatMessages)
         THEN /\ Len(chatMessages') = Len(chatMessages)
              /\ Front(chatMessages') = Front(chatMessages)
              /\ Last(chatMessages') = [Last(chatMessages) EXCEPT !.content = Last(chatMessages').content]
              /\ IsPrefix(Last(chatMessages).content, Last(chatMessages').content)
              /\ IsSuffix(lastEvt'.text, Last(chatMessages').content)
         ELSE /\ Front(chatMessages') = chatMessages
              /\ Last(chatMessages') = StreamingMsg(lastEvt'.text)]_vars

C25_Witness ==
  /\ lastEvt.type = "timer"
  /\ lastEvt.role = "output"
  /\ lastEvt.open
  /\ Len(chatMessages) = 2
  /\ chatMessages[1].isToolUse
  /\ Last(chatMessages).content = <<"o", NL, "o">>

\* C26: a cursor-result that finds no open streaming message appends one
\* finalized message holding the result text exactly when the text is non-empty
\* after trimming, of role error for an error result and assistant otherwise
C26_FinalResultAppends ==
  [][(lastEvt'.type = "cursor-result" /\ ~OpenStream(chatMessages)) =>
       IF TrimNonEmpty(lastEvt'.text)
         THEN /\ Front(chatMessages') = chatMessages
              /\ Last(chatMessages').type = (IF lastEvt'.role = "error" THEN "error" ELSE "assistant")
              /\ Last(chatMessages').content = lastEvt'.text
              /\ ~Last(chatMessages').isStreaming
              /\ ~Last(chatMessages').isToolUse
         ELSE chatMessages' = chatMessages]_vars

C26_Witness ==
  /\ lastEvt.type = "cursor-result"
  /\ ~lastEvt.open
  /\ lastEvt.role = "error"
  /\ lastEvt.pending # <<>>
  /\ Len(chatMessages) = 2
  /\ Last(chatMessages) = Msg("error", <<"F">>)

\* C27: a tool-result attached to a registered tool-use message changes only the
\* toolResult field: the message keeps its position and its other fields, the
\* transcript keeps its length, and no message with another tool id changes
C27_AttachChangesOnlyResult ==
  [][\A t \in ToolIds :
       (ToolResultStep(Part("tool_result", t, <<"r">>)) /\ ToolUsesOf(chatMessages, t) # {}) =>
          /\ Len(chatMessages') = Len(chatMessages)
          /\ \A i \in 1..Len(chatMessages) :
                IF i \in ToolUsesOf(chatMessages, t)
                  THEN /\ chatMessages'[i] = [chatMessages[i] EXCEPT !.toolResult = chatMessages'[i].toolResult]
                       /\ chatMessages'[i].toolResult = ToolResultValue(<<"r">>, FALSE)
                  ELSE chatMessages'[i] = chatMessages[i]]_vars

C27_Witness ==
  /\ lastEvt.type = "claude-response"
  /\ lastEvt.role = "user"
  /\ lastEvt.parts = <<Part("tool_result", "t1", <<"r">>)>>
  /\ Len(chatMessages) = 2
  /\ chatMessages[1] = ToolUseMsg("t2")
  /\ chatMessages[2] = [ToolUseMsg("t1") EXCEPT !.toolResult = ToolResultValue(<<"r">>, FALSE)]

\* the records of the selected session that the pagination state says are
\* loaded: the newest messagesOffset ones
LoadedRecords ==
  LET all == Store(selectedSession)
      from == IF Len(all) - messagesOffset > 0 THEN Len(all) - messagesOffset ELSE 0
  IN SubSeq(all, from + 1, Len(all))

\* the tool-use messages of a transcript, in order
ToolUseMessages(chat) == SelectSeq(chat, LAMBDA m : m.isToolUse)

IsUserSingleText(value) ==
  /\ value.truthy
  /\ value.role = "user"
  /\ Len(value.parts) = 1
  /\ value.parts[1].k = "text"

\* the endpoint and the converter on the single row i of the blobs table
EndpointOnRow(i) == ServerMessages(<<blobs[i]>>)
ConverterOnRow(i) == ConvertCursorBlobs(<<ServerMessage(blobs, i)>>)

\* a system record gives no message at the endpoint and none in the converter
SystemRecordDropped(i) ==
  (ParseBlob(blobs[i].data).ok /\ ParseBlob(blobs[i].data).value.role = "system") =>
     (EndpointOnRow(i) = <<>> /\ ConverterOnRow(i) = <<>>)

\* the endpoint and the converter turn row i into one user message with the
\* text of the record's part
OneUserMessage(i) ==
  LET out == ConvertCursorBlobs(EndpointOnRow(i))
  IN /\ Len(out) = 1
     /\ out[1].type = "user"
     /\ out[1].content = ParseBlob(blobs[i].data).value.parts[1].v

\* C21 as stated: a system record (direct or nested role) gives zero messages at
\* the endpoint and again in the converter; a user record with a single text
\* part gives exactly one user message whose content is that text
C21_UserTextAlwaysKept ==
  \A i \in 1..Len(blobs) :
    /\ SystemRecordDropped(i)
    /\ (ParseBlob(blobs[i].data).ok /\ IsUserSingleText(ParseBlob(blobs[i].data).value)) =>
         OneUserMessage(i)

\* C21 amended: the same, for a user record whose single text part is non-empty
\* after trimming
C21_SystemDroppedUserKept ==
  \A i \in 1..Len(blobs) :
    /\ SystemRecordDropped(i)
    /\ (/\ ParseBlob(blobs[i].data).ok
        /\ IsUserSingleText(ParseBlob(blobs[i].data).value)
        /\ TrimNonEmpty(ParseBlob(blobs[i].data).value.parts[1].v)) =>
         OneUserMessage(i)

C21_Witness ==
  /\ lastEvt.type = "cursor-load"
  /\ lastEvt.role = "ok"
  /\ Len(blobs) = 2
  /\ blobs[1].data = <<LB, MESSAGE, LB, RoleTok("system"), TextPart(<<"sys">>), RB, RB>>
  /\ blobs[2].data = <<LB, RoleTok("user"), TextPart(<<"hi">>), RB>>
  /\ Len(chatMessages) = 1
  /\ chatMessages[1].type = "user"
  /\ chatMessages[1].content = <<"hi">>
  /\ chatMessages[1].sequence = 2

\* the messages of a list that came from the blob numbered q, in list order
MessagesOfBlob(list, q) == SelectSeq(list, LAMBDA m : m.sequence = q)

\* C29: the messages of a loaded Cursor session are ordered by blob sequence
\* (and so by rowid): no message of a lower-sequence blob comes after one of a
\* higher-sequence blob, and the messages of one blob keep the order in which
\* the converter emitted them
C29_OrderedByBlobSequence ==
  [][(lastEvt'.type = "cursor-load" /\ lastEvt'.role = "ok") =>
       LET emitted == ConvertCursorBlobs(cursorResponse.messages)
       IN /\ Len(chatMessages') = Len(emitted)
          /\ \A i, j \in 1..Len(chatMessages') :
                i < j => /\ chatMessages'[i].sequence <= chatMessages'[j].sequence
                         /\ chatMessages'[i].rowid <= chatMessages'[j].rowid
          /\ \A q \in 1..Len(cursorResponse.rows) :
                MessagesOfBlob(chatMessages', q) = MessagesOfBlob(emitted, q)]_vars

C29_Witness ==
  /\ lastEvt.type = "cursor-load"
  /\ lastEvt.role = "ok"
  /\ Len(chatMessages) = 4
  /\ chatMessages[1].content = <<"a">>
  /\ chatMessages[2].isToolUse
  /\ chatMessages[3].content = <<"b">>
  /\ chatMessages[3].sequence = 1
  /\ chatMessages[4].sequence = 2
  /\ chatMessages[4].rowid = 4

\* the blob parses as JSON, directly or after the extraction
ParsesAsJson(raw) ==
  JsonParse(raw).ok \/ (ExtractJson(raw) # <<>> /\ JsonParse(ExtractJson(raw)).ok)

\* the value it parses to
ParsedValue(raw) ==
  IF JsonParse(raw).ok THEN JsonParse(raw).value ELSE JsonParse(ExtractJson(raw)).value

\* the rows for which the response holds a message
ReturnedRows == {cursorResponse.messages[k].sequence : k \in 1..Len(cursorResponse.messages)}

\* the returned messages are in ascending rowid order, and each carries the
\* sequence, the rowid and the parsed content of its blob
ReturnedInRowidOrder ==
  /\ \A k \in 1..Len(cursorResponse.messages) :
       LET m == cursorResponse.messages[k]
       IN /\ m.sequence \in 1..Len(cursorResponse.rows)
          /\ m.rowid = cursorResponse.rows[m.sequence].rowid
          /\ m.content = ParsedValue(cursorResponse.rows[m.sequence].data)
  /\ \A k, l \in 1..Len(cursorResponse.messages) :
       k < l => cursorResponse.messages[k].rowid < cursorResponse.messages[l].rowid

\* C30 as stated: the endpoint returns a message for a blob exactly when the
\* blob parses as JSON (directly or after the extraction) and its role is not
\* system; the messages are in ascending rowid order with sequence and rowid
C30_MessageIffParses ==
  cursorResponse.status = "ok" =>
    /\ \A i \in 1..Len(cursorResponse.rows) :
         (i \in ReturnedRows) <=>
            (/\ ParsesAsJson(cursorResponse.rows[i].data)
             /\ ParsedValue(cursorResponse.rows[i].data).role # "system")
    /\ ReturnedInRowidOrder

\* C30 amended: the same, for a blob that parses as JSON to a value that is not
\* null (nor another falsy value)
C30_MessageIffParsesToValue ==
  cursorResponse.status = "ok" =>
    /\ \A i \in 1..Len(cursorResponse.rows) :
         (i \in ReturnedRows) <=>
            (/\ ParsesAsJson(cursorResponse.rows[i].data)
             /\ ParsedValue(cursorResponse.rows[i].data).truthy
             /\ ParsedValue(cursorResponse.rows[i].data).role # "system")
    /\ ReturnedInRowidOrder

C30_Witness ==
  /\ cursorResponse.status = "ok"
  /\ Len(cursorResponse.rows) = 2
  /\ cursorResponse.rows[1].data = <<JUNK, GARBAGE>>
  /\ cursorResponse.rows[2].data = <<JUNK, LB, RoleTok("assistant"), JUNK, TextPart(<<"w">>), RB, JUNK>>
  /\ Len(cursorResponse.messages) = 1
  /\ cursorResponse.messages[1].sequence = 2
  /\ cursorResponse.messages[1].rowid = 3
  /\ cursorResponse.messages[1].content.role = "assistant"

\* C31: a session-created event with a session id, while no current session id
\* is tracked, stores the id as pending and calls replaceTemporaryId with it
\* once; while a current session id is tracked it changes neither id and makes
\* no call
C31_SessionCreatedStoresPending ==
  [][lastEvt'.type = "session-created" =>
       IF lastEvt'.session # NoId /\ currentSessionId = NoId
         THEN /\ pendingSessionId' = lastEvt'.session
              /\ currentSessionId' = NoId
              /\ lastEvt'.sent = <<"replaceTemporaryId", lastEvt'.session>>
         ELSE /\ UNCHANGED <<pendingSessionId, currentSessionId, activeSessions>>
              /\ lastEvt'.sent = <<>>]_vars

C31_Witness ==
  /\ lastEvt.type = "session-created"
  /\ lastEvt.sent = <<"replaceTemporaryId", "A">>
  /\ pendingSessionId = "A"
  /\ currentSessionId = NoId
  /\ activeSessions = {"A"}
  /\ isLoading

\* C32: claude-complete adopts the pending session id as the current one, and
\* removes it from pending storage, only when no current session id is tracked
\* and the exit code is 0; on a non-zero exit code both ids stay as they were
C32_PendingAdoptedOnSuccess ==
  [][lastEvt'.type = "claude-complete" =>
       IF pendingSessionId # NoId /\ currentSessionId = NoId /\ lastEvt'.role = "exit 0"
         THEN currentSessionId' = pendingSessionId /\ pendingSessionId' = NoId
         ELSE UNCHANGED <<currentSessionId, pendingSessionId>>]_vars

C32_Witness ==
  /\ lastEvt.type = "claude-complete"
  /\ lastEvt.role = "exit 1"
  /\ lastEvt.session = NoId
  /\ pendingSessionId = "B"
  /\ currentSessionId = NoId
  /\ ~isLoading

\* the snapshot a reload of the project would restore
Snapshot == SavedMessages(localStorage, PROJECT_KEY)

\* the persist effect has run for the transcript as it is now
Persisted == chatMessages = persistDeps

\* C33: once the persist effect has run for a non-empty transcript and its
\* write met no storage error, the project's snapshot is the last
\* min(SAVED_MAX, n) messages of the transcript; and the snapshot is never more
\* than one update behind the transcript, also after a new-session clear
C33_SnapshotFollowsTranscript ==
  (Persisted /\ storageCall.outcome[1] = "ok") =>
     /\ Len(chatMessages) > 0 => Snapshot = LastN(chatMessages, SAVED_MAX)
     /\ Snapshot \in {LastN(chatMessages, SAVED_MAX), LastN(prevMessages, SAVED_MAX)}

\* the chat_messages_ keys of a store that have at least three chat_messages_
\* keys after them in sorted order
OldChatKeys(store) ==
  {ChatKeys[i] : i \in {n \in 1..Len(ChatKeys) :
      /\ store[ChatKeys[n]] # Absent
      /\ Cardinality({j \in (n + 1)..Len(ChatKeys) : store[ChatKeys[j]] # Absent}) >= 3}}

\* the last setItem call met a quota error on its first write
QuotaCall == storageCall.key # NoId /\ storageCall.outcome[1] = "quota"

\* what the key written by the last call holds afterwards when the first write
\* met a quota error: the value when the retry succeeded; else the last
\* SAVED_MIN entries of a longer chat array when that write succeeded; else
\* nothing if the cleanup removed the key, or what it held before
ExpectedAfterQuota ==
  LET c == storageCall
      capped == IF c.key \in ChatKeySet /\ c.value.kind = "array"
                  THEN JsonArray(LastN(c.value.items, SAVED_MAX)) ELSE c.value
  IN IF c.outcome[2] = "ok" THEN capped
     ELSE IF c.key \in ChatKeySet /\ capped.kind = "array" /\ Len(capped.items) > SAVED_MIN
              /\ c.outcome[3] = "ok"
       THEN JsonArray(LastN(capped.items, SAVED_MIN))
     ELSE IF c.key \in OldChatKeys(c.before) \cup DraftKeys THEN Absent
     ELSE c.before[c.key]

TurnEndEvents == {"claude-complete", "cursor-result", "session-aborted"}

\* no message of the transcript is open for streaming
NoOpenMessage == \A i \in 1..Len(chatMessages) : ~chatMessages[i].isStreaming

\* C35: once a turn-end event has been processed and no debounce timer is
\* pending, be it at once or after the pending timer has fired, no message of
\* the transcript has isStreaming = true
C35_NoStreamAfterTurnEnd ==
  /\ []((lastEvt.type \in TurnEndEvents /\ timeouts = 0) => NoOpenMessage)
  /\ [][(lastEvt.type \in TurnEndEvents /\ lastEvt'.type = "timer" /\ timeouts' = 0)
          => NoOpenMessage']_vars

\* a step that takes the buffered text out of the stream buffer
BufferEmptied == streamBuffer # <<>> /\ streamBuffer' = <<>>

\* C36: buffered stream text is never lost: a step that empties the buffer
\* leaves the buffered text at the end of the last message's content, unless
\* it is a final result whose non-blank text replaces it; a final result with
\* empty text before the first flush does not discard the buffer
C36_BufferedTextNotLost ==
  [][BufferEmptied =>
       \/ lastEvt'.type = "cursor-result" /\ TrimNonEmpty(lastEvt'.text)
       \/ /\ Len(chatMessages') > 0
          /\ IsSuffix(streamBuffer, Last(chatMessages').content)]_vars

\* C37: in every reachable state a non-empty stream buffer has a debounce timer
\* pending for it, and at most one debounce timer is pending, whichever of
\* content_block_delta, claude-output, cursor-output, the timer, the stop and
\* the result handler ran
C37_BufferHasOneTimer ==
  /\ streamBuffer # <<>> => (timeouts >= 1 /\ streamTimer # "none")
  /\ timeouts <= 1

\* output of both kinds is buffered behind a fragment under a single timer
C37_Witness ==
  /\ lastEvt.type = "cursor-output"
  /\ Len(streamBuffer) > 1
  /\ streamTimer = "delta"
  /\ timeouts = 1

\* a history response, of an initial load or a load-more, that arrives for a
\* session that is not the selected one
LateResponse ==
  /\ lastEvt'.type \in {"initial-load", "load-more"}
  /\ lastEvt'.session # selectedSession

\* C38: a history response fetched for one session is never merged into the
\* transcript shown for another: when the selected session has changed while
\* the fetch was in flight, the late response neither replaces the transcript
\* nor is prepended to it
C38_LateResponseNotMerged ==
  [][LateResponse => chatMessages' = chatMessages]_vars

\* a step in which handleSubmit appends the user message and sends the command
CommandSent == lastEvt'.type = "submit"

\* C39: at most one turn is in flight: handleSubmit appends the user message
\* and sends the command only when no turn is in progress, also when the call
\* was suspended at the image upload in between
C39_OneTurnInFlight ==
  [][CommandSent => ~isLoading]_vars

\* C40: a turn-end event clears the loading state, and the event that comes
\* after it, unless it is a submit, leaves it clear: no later event of the
\* ended turn, a late claude-status in particular, leaves isLoading true with
\* no turn in progress
C40_LoadingClearedUntilSubmit ==
  [][/\ lastEvt'.type \in TurnEndEvents => ~isLoading'
     /\ (lastEvt.type \in TurnEndEvents /\ lastEvt'.type # "submit") => ~isLoading']_vars

====
